---- MODULE Spec2Model ----
(***************************************************************************)
(* Meeting-minutes optimisation engine: the strategy selector, the early   *)
(* stopping monitor and the optimisation loop of                            *)
(* scripts/iterative_optimizer.py, and the segmentation pipeline of         *)
(* scripts/semantic_splitter.py and scripts/optimize_meeting_minutes.py.    *)
(*                                                                         *)
(* Scores are kept in hundredths (0.80 is 80, 0.02 is 2), segmentation      *)
(* quality scores in tenths (6.0 is 60).  Python dicts are functions whose  *)
(* DOMAIN is the set of keys present; Python lists are sequences.  The      *)
(* dimension names of the catalog are written in English ("role" for the    *)
(* catalog's and the code's Chinese word for role, and so on).              *)
(***************************************************************************)
EXTENDS Integers, Sequences, FiniteSets, TLC

VARIABLES
  strategies,     \* self.strategies: the catalog, a dict in insertion order
  config,         \* self.config: OptimizationConfig
  entry,          \* which method the caller invoked: optimize_transcript or optimize
  pc,             \* position in optimize_transcript / optimize
  iteration,      \* loop variable of optimize_transcript
  history,        \* local list `history` of OptimizationResult
  combination,    \* local `strategies` of the loop: the selector's last return value
  path,           \* which branch of the selector produced `combination`
  minutes_content,\* local `minutes_content`: "" when the generation call failed
  saved,          \* iteration indices persisted by _save_iteration_result
  stop,           \* last return value of _should_stop_early: <<should_stop, reason>>
  outcome,        \* what the caller receives
  text,           \* the transcript, as a list of runs of one character class each
  seg_entry,      \* the segmentation method the caller invoked
  enable_semantic_segmentation,  \* self.enable_semantic_segmentation
  enable_ai_optimization,        \* split_text's parameter
  seg_pc,         \* position in split_text / _check_and_segment_transcript
  breakpoints,    \* local `breakpoints` of split_text
  seg_i,          \* loop index i of split_text (1-based)
  segments,       \* local `segments` of split_text
  skipped,        \* number of candidate segments dropped as empty after strip()
  judge_calls,    \* number of _call_ollama requests made so far
  boundary_parsed, \* whether the last reply to a boundary prompt loaded as JSON
  quality_result, \* local `quality_result`: what evaluate_segments returned
  quality_score,  \* local `quality_score` of _check_and_segment_transcript
  segmented_results, \* return value of _check_and_segment_transcript
  judge_output,   \* what the critique subprocess gave in _get_strategy_improvements
  improvements,   \* outcome of _get_strategy_improvements in the selector
  max_length,     \* argument of _simple_segment
  start,          \* start offset of the current pass of _simple_segment
  batch_entry,    \* the batch loop that runs
  documents,      \* what processing each document of the batch does
  doc_index,      \* number of documents the loop is done with
  batch_results,  \* one record per document the loop is done with
  batch_pc,       \* position in the batch loop
  boundary_call,  \* the last call of _optimize_segment_boundary: reply's confidence, the given and the returned offsets
  eval_segments,  \* argument `segments` of evaluate_segments
  original_supplied,\* whether evaluate_segments was given original_text
  eval_pc,        \* position in evaluate_segments
  evaluation_results,\* the component scores collected so far
  issues,         \* local `issues` of evaluate_segments
  overall_score,  \* local `overall_score` of evaluate_segments
  eval_judge_calls, \* number of _call_ollama requests of the evaluator
  monitor,        \* the ConvergenceMonitor object: its fields
  updates         \* the update(score) calls made so far: score, best_score before the call, returned value

opt_vars == <<strategies, config, entry, pc, iteration, history, combination, path,
              minutes_content, saved, stop, outcome>>

seg_vars == <<text, seg_entry, enable_semantic_segmentation, enable_ai_optimization,
              seg_pc, breakpoints, seg_i, segments, skipped, judge_calls,
              boundary_parsed,
              quality_result, quality_score, segmented_results>>

sel_vars == <<judge_output, improvements>>

simple_vars == <<max_length, start>>

batch_vars == <<batch_entry, documents, doc_index, batch_results, batch_pc>>

boundary_vars == <<boundary_call>>

eval_vars == <<eval_segments, original_supplied, eval_pc, evaluation_results, issues, overall_score, eval_judge_calls>>

conv_vars == <<monitor, updates>>

vars == <<opt_vars, seg_vars, sel_vars, simple_vars, batch_vars, boundary_vars, eval_vars, conv_vars>>

----------------------------------------------------------------------------
(* Generic list helpers (Python list semantics).                           *)

Min(a, b) == IF a < b THEN a ELSE b
Max(a, b) == IF a > b THEN a ELSE b
Abs(a) == IF a < 0 THEN -a ELSE a

InList(x, s) == \E i \in DOMAIN s : s[i] = x

\* s[:n] for n >= 0
Take(s, n) == SubSeq(s, 1, Min(n, Len(s)))

\* list.index(x), 1-based; x is in s
IndexOf(x, s) == CHOOSE i \in DOMAIN s : s[i] = x /\ \A j \in 1..(i - 1) : s[j] # x

\* list.remove(x): drops the first occurrence only
RemoveFirst(x, s) ==
  LET i == IndexOf(x, s)
  IN SubSeq(s, 1, i - 1) \o SubSeq(s, i + 1, Len(s))

\* dict.get(key, default)
Get(d, key, default) == IF key \in DOMAIN d THEN d[key] ELSE default

EmptyDict == << >>

----------------------------------------------------------------------------
(* Strategy ids.  The first three are the ids the code hard-wires as the    *)
(* baseline; the others are ids of the same naming scheme.                 *)

A1 == "A_role_definition_A1"
A2 == "A_role_definition_A2"
B1 == "B_structure_B1"
B2 == "B_structure_B2"
C1 == "C_summary_C1"
C2 == "C_detail_C2"
D1 == "D_format_D1"
E1 == "E_language_E1"
Z9 == "unknown_strategy"

NoneValue == "None"

BaselineCombination == <<A1, B1, C1>>

\* One catalog entry: strategy id -> {dimension, conflict_with}
Strategy(id, dim, conflicts) == [id |-> id, dimension |-> dim, conflict_with |-> conflicts]

\* A catalog with symmetric conflict lists.
CatalogSymmetric ==
  << Strategy(A1, "role", {}),
     Strategy(A2, "role", {C1}),
     Strategy(B1, "structure", {}),
     Strategy(B2, "structure", {C2}),
     Strategy(C1, "content", {A2}),
     Strategy(C2, "content", {B2, D1}),
     Strategy(D1, "format", {C2}) >>

\* The same strategies, with conflicts listed on one side only.
CatalogOneSided ==
  << Strategy(A1, "role", {}),
     Strategy(A2, "role", {}),
     Strategy(B1, "structure", {}),
     Strategy(B2, "structure", {}),
     Strategy(C1, "content", {A2}),
     Strategy(C2, "content", {B2, D1}),
     Strategy(D1, "format", {}) >>

\* No conflicts at all.
CatalogNoConflicts ==
  << Strategy(A1, "role", {}),
     Strategy(A2, "role", {}),
     Strategy(B1, "structure", {}),
     Strategy(C1, "content", {}),
     Strategy(C2, "content", {}),
     Strategy(D1, "format", {}) >>

\* A sparsely populated catalog: one dimension only.
CatalogSparse ==
  << Strategy(C1, "content", {}),
     Strategy(C2, "content", {}) >>

\* json.load of a file holding {}
CatalogEmpty == << >>

\* A catalog in which E1 and each baseline strategy list each other.
CatalogTotalConflict ==
  << Strategy(A1, "role", {E1}),
     Strategy(A2, "role", {C1}),
     Strategy(B1, "structure", {E1}),
     Strategy(C1, "content", {A2, E1}),
     Strategy(C2, "content", {}),
     Strategy(E1, "language", {A1, B1, C1}) >>

\* The same, with the conflicts of E1 listed by the baseline strategies only.
CatalogTotalConflictOneSided ==
  << Strategy(A1, "role", {E1}),
     Strategy(A2, "role", {C1}),
     Strategy(B1, "structure", {E1}),
     Strategy(C1, "content", {A2, E1}),
     Strategy(C2, "content", {}),
     Strategy(E1, "language", {}) >>

Catalogs == {CatalogSymmetric, CatalogOneSided, CatalogNoConflicts, CatalogSparse, CatalogEmpty}

\* list(self.strategies.keys())
Keys == [i \in DOMAIN strategies |-> strategies[i].id]

\* strategy_id in self.strategies
InCatalog(strategy_id) == \E i \in DOMAIN strategies : strategies[i].id = strategy_id

\* self.strategies.get(strategy_id, {}).get('conflict_with', [])
ConflictWith(strategy_id) ==
  IF InCatalog(strategy_id)
  THEN (CHOOSE e \in {strategies[i] : i \in DOMAIN strategies} : e.id = strategy_id).conflict_with
  ELSE {}

\* strategy_data.get('dimension', '')
DimensionField(strategy_id) ==
  IF InCatalog(strategy_id)
  THEN (CHOOSE e \in {strategies[i] : i \in DOMAIN strategies} : e.id = strategy_id).dimension
  ELSE ""

----------------------------------------------------------------------------
(* The strategy combination selector.                                      *)

\* str.startswith over the ids of the model
Prefix(strategy_id) ==
  CASE strategy_id \in {A1, A2} -> "A_"
    [] strategy_id \in {B1, B2} -> "B_"
    [] strategy_id \in {C1, C2} -> "C_"
    [] strategy_id \in {D1}     -> "D_"
    [] strategy_id \in {E1}     -> "E_"
    [] OTHER                    -> ""

get_strategy_dimension(strategy_id) ==
  CASE Prefix(strategy_id) = "A_" -> "role"
    [] Prefix(strategy_id) = "B_" -> "structure"
    [] Prefix(strategy_id) = "C_" -> "content"
    [] Prefix(strategy_id) = "D_" -> "format"
    [] Prefix(strategy_id) = "E_" -> "language"
    [] Prefix(strategy_id) = "F_" -> "quality"
    [] OTHER                      -> NoneValue

get_dimension_strategies(dimension) ==
  IF dimension = NoneValue
  THEN << >>
  ELSE SelectSeq(Keys,
         LAMBDA id : (IF DimensionField(id) = ""
                      THEN get_strategy_dimension(id)
                      ELSE DimensionField(id)) = dimension)

dimension_order == <<"role", "structure", "content", "format", "language", "quality">>

get_strategy_pools_by_dimension ==
  [dim \in {dimension_order[i] : i \in DOMAIN dimension_order} |->
     SelectSeq(Keys, LAMBDA id : DimensionField(id) = dim)]

has_conflict(strategy_id, selected_strategies) ==
  \E i \in DOMAIN selected_strategies : selected_strategies[i] \in ConflictWith(strategy_id)

\* the loop of _select_compatible_strategies from dimension number k on
RECURSIVE CompatibleFrom(_, _, _, _)
CompatibleFrom(k, selected, strategy_pools, iter) ==
  IF k > Len(dimension_order) \/ Len(selected) >= config.strategy_max_count
  THEN selected
  ELSE LET strategy_options == strategy_pools[dimension_order[k]]
       IN IF strategy_options # << >>
          THEN LET chosen_strategy == strategy_options[(iter % Len(strategy_options)) + 1]
               IN IF ~has_conflict(chosen_strategy, selected)
                  THEN CompatibleFrom(k + 1, Append(selected, chosen_strategy), strategy_pools, iter)
                  ELSE CompatibleFrom(k + 1, selected, strategy_pools, iter)
          ELSE CompatibleFrom(k + 1, selected, strategy_pools, iter)

select_compatible_strategies(strategy_pools, iter) ==
  CompatibleFrom(1, << >>, strategy_pools, iter)

\* variant: among equal scores the last entry wins
best_result_last(hist) ==
  hist[CHOOSE i \in DOMAIN hist :
         /\ \A j \in DOMAIN hist : hist[j].overall_score <= hist[i].overall_score
         /\ \A j \in (i + 1)..Len(hist) : hist[j].overall_score < hist[i].overall_score]

\* max(history, key=overall_score): the first entry holding the maximum
BestIndex(hist) ==
  CHOOSE i \in DOMAIN hist :
    /\ \A j \in DOMAIN hist : hist[j].overall_score <= hist[i].overall_score
    /\ \A j \in 1..(i - 1) : hist[j].overall_score < hist[i].overall_score

best_result_of(hist) == hist[BestIndex(hist)]

\* the late-round branch: replace one slot of the best combination
fine_tune(iter, hist) ==
  LET base_strategies == best_result_of(hist).strategy_combination
  IN IF Len(base_strategies) > 0
     THEN LET replace_idx == (iter % Len(base_strategies)) + 1
              dimension == get_strategy_dimension(base_strategies[replace_idx])
              alternative_strategies == get_dimension_strategies(dimension)
          IN IF alternative_strategies # << >>
             THEN LET alternative ==
                        alternative_strategies[(iter % Len(alternative_strategies)) + 1]
                  IN IF alternative # base_strategies[replace_idx]
                     THEN [base_strategies EXCEPT ![replace_idx] = alternative]
                     ELSE base_strategies
             ELSE base_strategies
     ELSE base_strategies

\* the default combination: the first keys of the catalog
default_combination == Take(Keys, Min(config.strategy_max_count, Len(Keys)))

\* the part of _select_strategy_combination after the suggestion attempt
deterministic_selection(iter, hist) ==
  IF hist # << >>
  THEN IF iter < 3
       THEN Take(select_compatible_strategies(get_strategy_pools_by_dimension, iter),
                 config.strategy_max_count)
       ELSE fine_tune(iter, hist)
  ELSE default_combination

fallback_strategy_selection(hist) == deterministic_selection(Len(hist), hist)

----------------------------------------------------------------------------
(* Improvement suggestions: validation and application.                    *)

has_strategy_conflicts(strategy_id, existing_strategies) ==
  \/ ~InCatalog(strategy_id)
  \/ \E i \in DOMAIN existing_strategies :
        existing_strategies[i] \in ConflictWith(strategy_id)

\* the greedy conflict filter over add_strategies
RECURSIVE ConflictFree(_, _)
ConflictFree(adds, conflict_free_strategies) ==
  IF adds = << >>
  THEN conflict_free_strategies
  ELSE IF ~has_strategy_conflicts(Head(adds), conflict_free_strategies)
       THEN ConflictFree(Tail(adds), Append(conflict_free_strategies, Head(adds)))
       ELSE ConflictFree(Tail(adds), conflict_free_strategies)

\* A JSON value that is no object is written [json_scalar |-> kind], with
\* kind "null" or "string"; an object is the dict of its members.
JsonNull == [json_scalar |-> "null"]
JsonString == [json_scalar |-> "string"]

\* `key in value` raises TypeError (value is None)
MembershipRaises(value) == value = JsonNull

\* _parse_improvement_suggestions: the fenced block or the outermost braces
\* are loaded with json.loads; everything else, and every exception, gives {}
parse_improvement_suggestions(improvement_text) ==
  IF improvement_text.text \in {"fenced_json", "bare_json"}
  THEN improvement_text.parsed
  ELSE EmptyDict

\* _validate_strategy_suggestions raises on this input
validate_raises(suggestions) ==
  /\ "strategy_adjustments" \in DOMAIN suggestions
  /\ MembershipRaises(suggestions["strategy_adjustments"])

validate_strategy_suggestions(suggestions) ==
  IF "strategy_adjustments" \in DOMAIN suggestions
  THEN LET adjustments == suggestions["strategy_adjustments"]
           valid_add ==
             IF "add_strategies" \in DOMAIN adjustments
             THEN [adjustments EXCEPT !["add_strategies"] = SelectSeq(@, InCatalog)]
             ELSE adjustments
           valid_remove ==
             IF "remove_strategies" \in DOMAIN valid_add
             THEN [valid_add EXCEPT !["remove_strategies"] = SelectSeq(@, InCatalog)]
             ELSE valid_add
           conflict_free ==
             IF "add_strategies" \in DOMAIN valid_remove
             THEN [valid_remove EXCEPT !["add_strategies"] = ConflictFree(@, << >>)]
             ELSE valid_remove
       IN [suggestions EXCEPT !["strategy_adjustments"] = conflict_free]
  ELSE suggestions

\* An outcome is a returned value or an exception on its way to the caller.
Returned(value) == [raised |-> FALSE, value |-> value]
Raised == [raised |-> TRUE, value |-> EmptyDict]

\* subprocess.run raised (timeout, missing binary): returncode -1 stands for it
SubprocessRaised == 0 - 1

\* the try block of _get_strategy_improvements
improvements_try(judge) ==
  IF judge.returncode = SubprocessRaised
  THEN Raised
  ELSE IF judge.returncode = 0
       THEN IF validate_raises(parse_improvement_suggestions(judge))
            THEN Raised
            ELSE Returned([structured_suggestions |->
                             validate_strategy_suggestions(
                               parse_improvement_suggestions(judge))])
       ELSE Returned(EmptyDict)

\* variant: the exception of the try block is not caught
improvements_outcome_uncaught(judge) == improvements_try(judge)

\* _get_strategy_improvements as its caller sees it: except Exception logs
\* and falls through to return {}
improvements_outcome(judge) ==
  IF improvements_try(judge).raised
  THEN Returned(EmptyDict)
  ELSE improvements_try(judge)

\* the dict _get_strategy_improvements returns
get_strategy_improvements(judge) == improvements_outcome(judge).value

\* _try_replace_weaker_strategy: returns the replaced id (or None) and leaves
\* current_strategies changed in place
try_replace_weaker_strategy(new_strategy, current_strategies) ==
  LET new_dimension == get_strategy_dimension(new_strategy)
      same_dimension_strategies ==
        SelectSeq(current_strategies, LAMBDA st : get_strategy_dimension(st) = new_dimension)
  IN IF new_dimension = NoneValue \/ same_dimension_strategies = << >>
     THEN [replaced |-> NoneValue, current |-> current_strategies]
     ELSE LET strategy_to_replace == same_dimension_strategies[1]
              index == IndexOf(strategy_to_replace, current_strategies)
          IN [replaced |-> strategy_to_replace,
              current  |-> [current_strategies EXCEPT ![index] = new_strategy]]

\* dimension_count of _try_intelligent_strategy_replacement
DimensionCount(current_strategies, dim) ==
  Cardinality({i \in DOMAIN current_strategies :
                 get_strategy_dimension(current_strategies[i]) = dim})

\* the dimensions of current_strategies in order of first appearance
\* (the insertion order of the dict dimension_count), None left out
RECURSIVE DimensionsInOrder(_, _)
DimensionsInOrder(current_strategies, seen) ==
  IF current_strategies = << >>
  THEN seen
  ELSE LET dim == get_strategy_dimension(Head(current_strategies))
       IN IF dim = NoneValue \/ InList(dim, seen)
          THEN DimensionsInOrder(Tail(current_strategies), seen)
          ELSE DimensionsInOrder(Tail(current_strategies), Append(seen, dim))

critical_dimensions == {"role", "structure"}

try_intelligent_strategy_replacement(new_strategy, current_strategies, hist) ==
  LET same == try_replace_weaker_strategy(new_strategy, current_strategies)
      new_dimension == get_strategy_dimension(new_strategy)
      dims == DimensionsInOrder(current_strategies, << >>)
      counts == {DimensionCount(current_strategies, dims[i]) : i \in DOMAIN dims}
      max_count == IF counts = {} THEN 0 ELSE CHOOSE m \in counts : \A c \in counts : c <= m
      balance_dims ==
        SelectSeq(dims, LAMBDA dim : DimensionCount(current_strategies, dim) = max_count
                                     /\ dim # new_dimension)
      non_critical ==
        SelectSeq(current_strategies,
                  LAMBDA st : get_strategy_dimension(st) \notin critical_dimensions)
  IN IF same.replaced # NoneValue
     THEN same
     ELSE IF new_dimension = NoneValue
     THEN [replaced |-> NoneValue, current |-> current_strategies]
     ELSE IF max_count > 1 /\ balance_dims # << >>
     THEN LET strategy ==
                (SelectSeq(current_strategies,
                           LAMBDA st : get_strategy_dimension(st) = balance_dims[1]))[1]
              index == IndexOf(strategy, current_strategies)
          IN [replaced |-> strategy,
              current  |-> [current_strategies EXCEPT ![index] = new_strategy]]
     ELSE IF Len(hist) >= 2 /\ non_critical # << >>
     THEN LET strategy == non_critical[1]
              index == IndexOf(strategy, current_strategies)
          IN [replaced |-> strategy,
              current  |-> [current_strategies EXCEPT ![index] = new_strategy]]
     ELSE [replaced |-> NoneValue, current |-> current_strategies]

\* the loop over remove_strategies
RECURSIVE ApplyRemovals(_, _)
ApplyRemovals(removes, base_strategies) ==
  IF removes = << >>
  THEN base_strategies
  ELSE IF InList(Head(removes), base_strategies)
       THEN ApplyRemovals(Tail(removes), RemoveFirst(Head(removes), base_strategies))
       ELSE ApplyRemovals(Tail(removes), base_strategies)

\* the loop over add_strategies
RECURSIVE ApplyAdditions(_, _, _)
ApplyAdditions(adds, base_strategies, hist) ==
  IF adds = << >>
  THEN base_strategies
  ELSE LET strategy_to_add == Head(adds)
       IN IF InList(strategy_to_add, base_strategies)
             \/ has_strategy_conflicts(strategy_to_add, base_strategies)
          THEN ApplyAdditions(Tail(adds), base_strategies, hist)
          ELSE IF Len(base_strategies) < config.strategy_max_count
          THEN ApplyAdditions(Tail(adds), Append(base_strategies, strategy_to_add), hist)
          ELSE ApplyAdditions(Tail(adds),
                 try_intelligent_strategy_replacement(strategy_to_add, base_strategies, hist).current,
                 hist)

\* the loop that pads from the basic strategies
RECURSIVE PadBasic(_, _)
PadBasic(basic_strategies, base_strategies) ==
  IF basic_strategies = << >>
  THEN base_strategies
  ELSE IF ~InList(Head(basic_strategies), base_strategies)
          /\ Len(base_strategies) < config.strategy_max_count
       THEN PadBasic(Tail(basic_strategies), Append(base_strategies, Head(basic_strategies)))
       ELSE PadBasic(Tail(basic_strategies), base_strategies)

\* "確保策略數量符合限制": truncate, or pad when fewer than two are left
enforce_count_limits(base_strategies) ==
  IF Len(base_strategies) > config.strategy_max_count
  THEN Take(base_strategies, config.strategy_max_count)
  ELSE IF Len(base_strategies) < 2
  THEN PadBasic(BaselineCombination, base_strategies)
  ELSE base_strategies

\* base_strategies of _apply_improvement_suggestions after the removals and
\* the additions
adjusted_base(suggestions, hist) ==
  LET adjustments == suggestions["strategy_adjustments"]
      base0 == IF hist # << >>
               THEN best_result_of(hist).strategy_combination
               ELSE BaselineCombination
      base1 == IF "remove_strategies" \in DOMAIN adjustments
               THEN ApplyRemovals(adjustments["remove_strategies"], base0)
               ELSE base0
  IN IF "add_strategies" \in DOMAIN adjustments
     THEN ApplyAdditions(adjustments["add_strategies"], base1, hist)
     ELSE base1

apply_improvement_suggestions(suggestions, hist) ==
  IF suggestions = EmptyDict \/ "strategy_adjustments" \notin DOMAIN suggestions
  THEN fallback_strategy_selection(hist)
  ELSE enforce_count_limits(adjusted_base(suggestions, hist))

select_strategy_combination(iter, hist, judge) ==
  IF iter = 0
  THEN BaselineCombination
  ELSE IF Len(hist) > 0
          /\ get_strategy_improvements(judge) # EmptyDict
          /\ "structured_suggestions" \in DOMAIN get_strategy_improvements(judge)
       THEN apply_improvement_suggestions(
              get_strategy_improvements(judge)["structured_suggestions"], hist)
       ELSE deterministic_selection(iter, hist)

\* The branch of the selector a call takes.
selector_path(iter, hist, judge) ==
  IF iter = 0 THEN "baseline"
  ELSE IF Len(hist) > 0 /\ get_strategy_improvements(judge) # EmptyDict
       THEN IF "strategy_adjustments" \in
                  DOMAIN get_strategy_improvements(judge)["structured_suggestions"]
            THEN "suggestion"
            ELSE IF Len(hist) < 3 THEN "explore" ELSE "fine_tune"
       ELSE IF hist = << >> THEN "default"
            ELSE IF iter < 3 THEN "explore" ELSE "fine_tune"

----------------------------------------------------------------------------
(* What the selector's changes in place do to the caller's history.        *)

\* variant: the list is taken itself, not copied
ListCopy_same_object(original) == [items |-> original, same_object |-> TRUE]

\* list.copy(): a list object of its own with the same items; what is then
\* changed in place does not reach the original
ListCopy(original) == [items |-> original, same_object |-> FALSE]

\* the items, when the selector returns, of the list object that
\* base_strategies named first: remove(), append() and item assignment change
\* it in place, the truncating slice binds the name to another list
base_strategies_at_return(iter, hist, judge) ==
  IF selector_path(iter, hist, judge) = "suggestion"
  THEN LET base2 == adjusted_base(get_strategy_improvements(judge)["structured_suggestions"],
                                  hist)
       IN IF Len(base2) > config.strategy_max_count
          THEN base2
          ELSE enforce_count_limits(base2)
  ELSE select_strategy_combination(iter, hist, judge)

\* the history list of the caller after _select_strategy_combination: the
\* suggestion path and the fine-tune branch work on the best entry's
\* combination, the other paths build their list from the catalog
history_after_select(iter, hist, judge) ==
  IF /\ selector_path(iter, hist, judge) \in {"suggestion", "fine_tune"}
     /\ hist # << >>
     /\ ListCopy(best_result_of(hist).strategy_combination).same_object
  THEN [hist EXCEPT ![BestIndex(hist)].strategy_combination =
                      base_strategies_at_return(iter, hist, judge)]
  ELSE hist

----------------------------------------------------------------------------
(* Early stopping.                                                         *)

\* history[-n:]
LastN(hist, n) == SubSeq(hist, Max(1, Len(hist) - n + 1), Len(hist))

\* variant: the threshold test is strict
should_stop_early_strict_threshold(hist) ==
  IF ~config.enable_early_stopping \/ Len(hist) < 2
  THEN <<FALSE, "">>
  ELSE IF hist[Len(hist)].overall_score > config.quality_threshold
  THEN <<TRUE, "quality threshold reached">>
  ELSE IF Len(hist) >= config.patience + 1
          /\ LET recent_scores == LastN(hist, config.patience + 1)
             IN \A i \in 2..Len(recent_scores) :
                  Abs(recent_scores[i].overall_score - recent_scores[i - 1].overall_score)
                    < config.min_improvement
  THEN <<TRUE, "no significant improvement">>
  ELSE <<FALSE, "">>

\* variant: the window is patience scores long instead of patience + 1
should_stop_early_short_window(hist) ==
  IF ~config.enable_early_stopping \/ Len(hist) < 2
  THEN <<FALSE, "">>
  ELSE IF hist[Len(hist)].overall_score >= config.quality_threshold
  THEN <<TRUE, "quality threshold reached">>
  ELSE IF Len(hist) >= config.patience
          /\ LET recent_scores == LastN(hist, config.patience)
             IN \A i \in 2..Len(recent_scores) :
                  Abs(recent_scores[i].overall_score - recent_scores[i - 1].overall_score)
                    < config.min_improvement
  THEN <<TRUE, "no significant improvement">>
  ELSE <<FALSE, "">>

should_stop_early(hist) ==
  IF ~config.enable_early_stopping \/ Len(hist) < 2
  THEN <<FALSE, "">>
  ELSE IF hist[Len(hist)].overall_score >= config.quality_threshold
  THEN <<TRUE, "quality threshold reached">>
  ELSE IF Len(hist) >= config.patience + 1
          /\ LET recent_scores == LastN(hist, config.patience + 1)
             IN \A i \in 2..Len(recent_scores) :
                  Abs(recent_scores[i].overall_score - recent_scores[i - 1].overall_score)
                    < config.min_improvement
  THEN <<TRUE, "no significant improvement">>
  ELSE <<FALSE, "">>

----------------------------------------------------------------------------
(* Bounds and input sets.                                                  *)

MaxPatience == 3

\* OptimizationConfig defaults, scores in hundredths
DefaultMaxIterations == 5
QualityThreshold == 80
MinImprovement == 2
DefaultPatience == 3

\* overall_score values the scoring backend may return
Scores == {60, 85}

Adjustment(adds, removes) == [add_strategies |-> adds, remove_strategies |-> removes]

\* the dicts the parse of the judge's text may yield
ParsedSuggestions ==
  { EmptyDict,
    [score_analysis |-> "text"],
    [strategy_adjustments |-> [add_strategies |-> <<D1>>]],
    [strategy_adjustments |-> [remove_strategies |-> <<A1, B1, C1>>]],
    [strategy_adjustments |-> Adjustment(<<A2>>, <<A1>>)],
    [strategy_adjustments |-> Adjustment(<<C2, D1>>, <<B1>>)],
    [strategy_adjustments |-> Adjustment(<<Z9, A2>>, <<Z9>>)],
    [strategy_adjustments |-> Adjustment(<<C2>>, <<C1, B1>>)] }

\* what the critique subprocess gives: a failure, or a text of one of the
\* kinds "empty", "prose", "truncated" (JSON cut short), "fenced_invalid" (a
\* fenced json block that does not load), "fenced_json" and "bare_json" (an
\* object, fenced or not, that loads to `parsed`)
JudgeText(kind, parsed) == [returncode |-> 0, text |-> kind, parsed |-> parsed]

JudgeFailure == [returncode |-> 1, text |-> "empty", parsed |-> EmptyDict]

JudgeOutputs ==
  {JudgeFailure, JudgeText("prose", EmptyDict)}
    \cup {JudgeText("fenced_json", p) : p \in ParsedSuggestions}

\* subprocess.run raised before any text was read
JudgeRaised == [returncode |-> SubprocessRaised, text |-> "empty", parsed |-> EmptyDict]

\* texts from which no object can be loaded
UnparsableTexts ==
  {JudgeText(kind, EmptyDict) : kind \in {"empty", "prose", "truncated", "fenced_invalid"}}

\* objects the judge may write, beyond ParsedSuggestions
SelectorSuggestions ==
  { [score_analysis |-> "text"],
    [strategy_adjustments |-> JsonNull],
    [strategy_adjustments |-> JsonString],
    [strategy_adjustments |-> Adjustment(<<E1>>, << >>)],
    [strategy_adjustments |-> [add_strategies |-> <<E1>>]],
    [strategy_adjustments |-> Adjustment(<< >>, <<A1, B1, C1>>)],
    [strategy_adjustments |-> Adjustment(<<C2>>, <<C1, B1>>)],
    [strategy_adjustments |-> Adjustment(<<A2>>, <<A1>>)],
    [strategy_adjustments |-> Adjustment(<<A2>>, <<C1>>)],
    [strategy_adjustments |-> Adjustment(<<C2>>, << >>)],
    [strategy_adjustments |-> Adjustment(<<A1, Z9, E1>>, <<Z9, C1>>)],
    [strategy_adjustments |-> Adjustment(<<E1, Z9, A1>>, <<C1, Z9>>)] }

SelectorJudgeOutputs ==
  {JudgeFailure, JudgeRaised} \cup UnparsableTexts
    \cup {JudgeText("fenced_json", p) : p \in SelectorSuggestions}
    \cup {JudgeText("bare_json", [strategy_adjustments |-> JsonNull])}

Configs ==
  [ max_iterations : 1..DefaultMaxIterations,
    quality_threshold : {QualityThreshold},
    min_improvement : {MinImprovement},
    patience : {DefaultPatience},
    strategy_max_count : {3, 4},
    enable_early_stopping : BOOLEAN,
    save_all_iterations : {TRUE} ]

\* variant: every result carries the index of the first round
OptimizationResult_first_index(iter, strats, score) ==
  [iteration |-> 0, strategy_combination |-> strats, overall_score |-> score]

\* OptimizationResult(iteration=iteration, strategy_combination=strategies,
\* scores=scores, ...), with scores reduced to overall_score
OptimizationResult(iter, strats, score) ==
  [iteration |-> iter, strategy_combination |-> strats, overall_score |-> score]

Running == [kind |-> "running"]

----------------------------------------------------------------------------
(* optimize_transcript and optimize.                                       *)

\* no segmentation in progress: the long-transcript path is not taken
SegmentationIdle ==
  /\ text = << >>
  /\ seg_entry = "none"
  /\ enable_semantic_segmentation = FALSE
  /\ enable_ai_optimization = FALSE
  /\ seg_pc = "idle"
  /\ breakpoints = << >>
  /\ seg_i = 0
  /\ segments = << >>
  /\ skipped = 0
  /\ judge_calls = 0
  /\ boundary_parsed = FALSE
  /\ quality_result = EmptyDict
  /\ quality_score = 0
  /\ segmented_results = << >>

\* no ConvergenceMonitor has been constructed
ConvergenceIdle ==
  /\ monitor = EmptyDict
  /\ updates = << >>

\* evaluate_segments has not been called
EvaluatorIdle ==
  /\ eval_segments = << >>
  /\ original_supplied = FALSE
  /\ eval_pc = "idle"
  /\ evaluation_results = EmptyDict
  /\ issues = << >>
  /\ overall_score = 0
  /\ eval_judge_calls = 0

\* _optimize_segment_boundary has not been called
BoundaryIdle ==
  boundary_call = [has_confidence |-> FALSE, confidence |-> 0,
                   original |-> <<0, 0>>, returned |-> <<0, 0>>]

\* no batch is running
BatchIdle ==
  /\ batch_entry = "none"
  /\ documents = << >>
  /\ doc_index = 0
  /\ batch_results = << >>
  /\ batch_pc = "idle"

\* _simple_segment has not been called
SimpleIdle ==
  /\ max_length = 0
  /\ start = 0

\* no critique has been requested
SelectorIdle ==
  /\ judge_output = JudgeFailure
  /\ improvements = Returned(EmptyDict)

Init ==
  /\ strategies \in Catalogs
  /\ config \in Configs
  /\ entry \in {"optimize_transcript", "optimize"}
  /\ pc = "select"
  /\ iteration = 0
  /\ history = << >>
  /\ combination = << >>
  /\ path = "none"
  /\ minutes_content = "none"
  /\ saved = << >>
  /\ stop = <<FALSE, "">>
  /\ outcome = Running
  /\ SegmentationIdle
  /\ SelectorIdle
  /\ SimpleIdle
  /\ BatchIdle
  /\ BoundaryIdle
  /\ EvaluatorIdle
  /\ ConvergenceIdle

\* strategies = self._select_strategy_combination(iteration, history)
SelectStrategy(judge) ==
  /\ pc = "select"
  /\ combination' = select_strategy_combination(iteration, history, judge)
  /\ path' = selector_path(iteration, history, judge)
  /\ pc' = "generate"
  /\ history' = history_after_select(iteration, history, judge)
  /\ UNCHANGED <<strategies, config, entry, iteration, minutes_content, saved,
                 stop, outcome>>
  /\ UNCHANGED seg_vars
  /\ UNCHANGED sel_vars
  /\ UNCHANGED simple_vars
  /\ UNCHANGED batch_vars
  /\ UNCHANGED boundary_vars
  /\ UNCHANGED eval_vars
  /\ UNCHANGED conv_vars

\* for iteration in range(max_iterations): the next index, or the end of the loop
NextRound ==
  /\ iteration' = iteration + 1
  /\ pc' = IF iteration + 1 < config.max_iterations THEN "select" ELSE "finish"

\* _save_iteration_result: the store after saving the round's result
save_iteration_result(store, iter) ==
  IF config.save_all_iterations THEN Append(store, iter) ELSE store

\* variant: a failed generation ends the loop (break instead of continue)
GenerateFailsAborts ==
  /\ pc = "generate"
  /\ minutes_content' = ""
  /\ iteration' = iteration
  /\ pc' = "finish"
  /\ UNCHANGED <<strategies, config, entry, history, combination, path, saved, stop, outcome>>
  /\ UNCHANGED seg_vars
  /\ UNCHANGED sel_vars
  /\ UNCHANGED simple_vars
  /\ UNCHANGED batch_vars
  /\ UNCHANGED boundary_vars
  /\ UNCHANGED eval_vars
  /\ UNCHANGED conv_vars

\* _generate_minutes returned "": the round is skipped
GenerateFails ==
  /\ pc = "generate"
  /\ minutes_content' = ""
  /\ NextRound
  /\ UNCHANGED <<strategies, config, entry, history, combination, path, saved, stop, outcome>>
  /\ UNCHANGED seg_vars
  /\ UNCHANGED sel_vars
  /\ UNCHANGED simple_vars
  /\ UNCHANGED batch_vars
  /\ UNCHANGED boundary_vars
  /\ UNCHANGED eval_vars
  /\ UNCHANGED conv_vars

\* _generate_minutes returned text: evaluate, record, check for early stop
GenerateAndRecord(score) ==
  /\ pc = "generate"
  /\ minutes_content' = "minutes"
  /\ history' = Append(history, OptimizationResult(iteration, combination, score))
  /\ saved' = save_iteration_result(saved, iteration)
  /\ stop' = should_stop_early(history')
  /\ IF stop'[1]
     THEN pc' = "finish" /\ iteration' = iteration
     ELSE NextRound
  /\ UNCHANGED <<strategies, config, entry, combination, path, outcome>>
  /\ UNCHANGED seg_vars
  /\ UNCHANGED sel_vars
  /\ UNCHANGED simple_vars
  /\ UNCHANGED batch_vars
  /\ UNCHANGED boundary_vars
  /\ UNCHANGED eval_vars
  /\ UNCHANGED conv_vars

\* best_result = max(history, ...); return best_result -- and optimize around it
ValueError == [kind |-> "raised", value |-> "ValueError"]

optimize_transcript_outcome(hist) ==
  IF hist = << >>
  THEN ValueError
  ELSE [kind |-> "returned", value |-> best_result_of(hist)]

optimize_outcome(hist) ==
  LET result == optimize_transcript_outcome(hist)
  IN IF result.kind = "raised"
     THEN [kind |-> "returned",
           value |-> [final_score |-> 0, improvement |-> 0, iterations |-> << >>]]
     ELSE [kind |-> "returned",
           value |-> [final_score |-> result.value.overall_score,
                      improvement |-> 0,
                      iterations |-> << [score |-> result.value.overall_score,
                                         strategies |-> result.value.strategy_combination] >>]]

Finish ==
  /\ pc = "finish"
  /\ outcome' = IF entry = "optimize"
                THEN optimize_outcome(history)
                ELSE optimize_transcript_outcome(history)
  /\ pc' = "done"
  /\ UNCHANGED <<strategies, config, entry, iteration, history, combination, path,
                 minutes_content, saved, stop>>
  /\ UNCHANGED seg_vars
  /\ UNCHANGED sel_vars
  /\ UNCHANGED simple_vars
  /\ UNCHANGED batch_vars
  /\ UNCHANGED boundary_vars
  /\ UNCHANGED eval_vars
  /\ UNCHANGED conv_vars

Next ==
  \/ \E judge \in JudgeOutputs : SelectStrategy(judge)
  \/ GenerateFails
  \/ \E score \in Scores : GenerateAndRecord(score)
  \/ Finish

Spec == Init /\ [][Next]_vars

----------------------------------------------------------------------------
(* Properties of the selector.                                             *)

\* the selector has returned at least once in this run
SelectorReturned == path # "none"

Conflicting(a, b) == a \in ConflictWith(b) \/ b \in ConflictWith(a)

ConflictFreeList(s) ==
  \A i, j \in DOMAIN s : i # j => ~Conflicting(s[i], s[j])

\* C1: every combination the selector returns, on every path, holds no two
\* members of which one is listed in the other's conflict_with.
C1_ConflictInvariant == SelectorReturned => ConflictFreeList(combination)

\* C2: every combination the selector returns has at least 2 and at most
\* strategy_max_count members.
C2_SizeInvariant ==
  SelectorReturned =>
    (2 <= Len(combination) /\ Len(combination) <= config.strategy_max_count)

----------------------------------------------------------------------------
(* The early-stopping monitor on its own: _should_stop_early evaluated      *)
(* after each recorded round, as lines 892-905 of optimize_transcript do,   *)
(* over score sequences of every shape.                                     *)

MaxRounds == 5

MonitorScores == {60, 61, 62, 70, 80, 85}

MonitorConfigs ==
  [ max_iterations : {MaxRounds},
    quality_threshold : {QualityThreshold},
    min_improvement : {MinImprovement},
    patience : 1..MaxPatience,
    strategy_max_count : {3},
    enable_early_stopping : BOOLEAN,
    save_all_iterations : {TRUE} ]

InitMonitor ==
  /\ strategies = CatalogNoConflicts
  /\ config \in MonitorConfigs
  /\ entry = "optimize_transcript"
  /\ pc = "record"
  /\ iteration = 0
  /\ history = << >>
  /\ combination = BaselineCombination
  /\ path = "baseline"
  /\ minutes_content = "none"
  /\ saved = << >>
  /\ stop = <<FALSE, "">>
  /\ outcome = Running
  /\ SegmentationIdle
  /\ SelectorIdle
  /\ SimpleIdle
  /\ BatchIdle
  /\ BoundaryIdle
  /\ EvaluatorIdle
  /\ ConvergenceIdle

\* history.append(result); should_stop, reason = self._should_stop_early(history)
RecordRound(score) ==
  /\ pc = "record"
  /\ iteration < config.max_iterations
  /\ minutes_content' = "minutes"
  /\ history' = Append(history, OptimizationResult(iteration, combination, score))
  /\ saved' = save_iteration_result(saved, iteration)
  /\ stop' = should_stop_early(history')
  /\ pc' = IF stop'[1] THEN "stopped" ELSE "record"
  /\ iteration' = IF stop'[1] THEN iteration ELSE iteration + 1
  /\ UNCHANGED <<strategies, config, entry, combination, path, outcome>>
  /\ UNCHANGED seg_vars
  /\ UNCHANGED sel_vars
  /\ UNCHANGED simple_vars
  /\ UNCHANGED batch_vars
  /\ UNCHANGED boundary_vars
  /\ UNCHANGED eval_vars
  /\ UNCHANGED conv_vars

NextMonitor == \E score \in MonitorScores : RecordRound(score)

SpecMonitor == InitMonitor /\ [][NextMonitor]_vars

StrictlyIncreasing(hist) ==
  \A i \in 2..Len(hist) : hist[i - 1].overall_score < hist[i].overall_score

\* every entry but the last is below the quality threshold
EarlierBelowThreshold(hist) ==
  \A i \in 1..(Len(hist) - 1) : hist[i].overall_score < config.quality_threshold

LastScore(hist) == hist[Len(hist)].overall_score

\* the last patience + 1 scores exist and differ pairwise-consecutively by
\* less than min_improvement
FlatWindow(hist) ==
  /\ Len(hist) >= config.patience + 1
  /\ \A i \in (Len(hist) - config.patience + 1)..Len(hist) :
        Abs(hist[i].overall_score - hist[i - 1].overall_score) < config.min_improvement

ThresholdCase ==
  /\ config.enable_early_stopping
  /\ history # << >>
  /\ StrictlyIncreasing(history)
  /\ EarlierBelowThreshold(history)

\* C3 as stated: on a strictly increasing score sequence whose first value
\* >= quality_threshold is recorded at round k (any k >= 1), the monitor
\* reports stop with the threshold reason at round k and no stop before.
C3_ThresholdStopAtAnyRound ==
  ThresholdCase =>
    IF LastScore(history) >= config.quality_threshold
    THEN stop = <<TRUE, "quality threshold reached">>
    ELSE stop[1] = FALSE

\* C3 amended: the threshold stop is reported at round k when k >= 2; the
\* first recorded round never stops; an earlier round stops only for the
\* other reason, when the last patience + 1 scores are flat.
C3_ThresholdStopFromSecondRound ==
  ThresholdCase =>
    IF LastScore(history) >= config.quality_threshold
    THEN IF Len(history) >= 2
         THEN stop = <<TRUE, "quality threshold reached">>
         ELSE stop[1] = FALSE
    ELSE IF FlatWindow(history)
         THEN stop = <<TRUE, "no significant improvement">>
         ELSE stop[1] = FALSE

\* a strictly increasing sequence reaches the threshold at a round k >= 2 and
\* the monitor has stopped for it
C3_Witness ==
  /\ ThresholdCase
  /\ Len(history) >= 3
  /\ LastScore(history) = config.quality_threshold
  /\ stop[1]

\* every consecutive difference of the whole history is below min_improvement
FlatHistory(hist) ==
  \A i \in 2..Len(hist) :
    Abs(hist[i].overall_score - hist[i - 1].overall_score) < config.min_improvement

AllBelowThreshold(hist) ==
  \A i \in DOMAIN hist : hist[i].overall_score < config.quality_threshold

\* C4: on a flat history below the threshold the monitor first reports stop,
\* with the no-significant-improvement reason, exactly when the history
\* length reaches patience + 1, and at no earlier round.
C4_NoImprovementStop ==
  (config.enable_early_stopping /\ history # << >>
     /\ AllBelowThreshold(history) /\ FlatHistory(history)) =>
    /\ Len(history) < config.patience + 1 => stop[1] = FALSE
    /\ Len(history) = config.patience + 1 => stop = <<TRUE, "no significant improvement">>
    /\ Len(history) <= config.patience + 1

\* scenario C: 0.60, 0.60, 0.61 with patience 2 has stopped after round three
C4_Witness ==
  /\ config.patience = 2
  /\ config.enable_early_stopping
  /\ Len(history) = 3
  /\ history[1].overall_score = 60
  /\ history[2].overall_score = 60
  /\ history[3].overall_score = 61
  /\ stop = <<TRUE, "no significant improvement">>

----------------------------------------------------------------------------
(* Properties of the optimisation loop.                                    *)

\* C5: when the generation call fails in every round, the run ends in an
\* error reported to the caller, through optimize_transcript and through
\* optimize alike, never in a returned result or score.
C5_ExhaustionIsError ==
  (pc = "done" /\ history = << >>) => outcome.kind = "raised"

\* C6: a round whose generation call fails appends nothing to the history,
\* persists nothing, and the loop goes on to the next iteration index.
C6_FailedRoundSkipped ==
  [][(pc = "generate" /\ minutes_content' = "") =>
       /\ history' = history
       /\ saved' = saved
       /\ iteration' = iteration + 1
       /\ outcome' = outcome
       /\ pc' = IF iteration + 1 < config.max_iterations THEN "select" ELSE "finish"]_vars

\* a round failed after an earlier one was recorded, and the loop goes on
C6_Witness ==
  /\ minutes_content = ""
  /\ history # << >>
  /\ pc = "select"
  /\ iteration = Len(history) + 1

\* the value optimize_transcript hands back, seen through either entry point
ReturnedScore ==
  IF entry = "optimize" THEN outcome.value.final_score ELSE outcome.value.overall_score

ReturnedCombination ==
  IF entry = "optimize"
  THEN outcome.value.iterations[1].strategies
  ELSE outcome.value.strategy_combination

\* C7: with a non-empty history the result returned is the entry with the
\* highest overall_score, the one of smallest iteration index among ties.
C7_BestResultEarliest ==
  (pc = "done" /\ history # << >>) =>
    /\ outcome.kind = "returned"
    /\ \E i \in DOMAIN history :
         /\ ReturnedScore = history[i].overall_score
         /\ ReturnedCombination = history[i].strategy_combination
         /\ entry = "optimize_transcript" => outcome.value = history[i]
         /\ \A j \in DOMAIN history :
              /\ history[j].overall_score <= history[i].overall_score
              /\ history[j].overall_score = history[i].overall_score
                   => history[i].iteration <= history[j].iteration

\* a run has ended whose two best entries tie and hold different combinations
C7_Witness ==
  /\ pc = "done"
  /\ entry = "optimize_transcript"
  /\ \E i, j \in DOMAIN history :
       /\ i < j
       /\ history[i].overall_score = history[j].overall_score
       /\ history[i].strategy_combination # history[j].strategy_combination
       /\ \A k \in DOMAIN history : history[k].overall_score <= history[i].overall_score
       /\ outcome.value = history[i]

----------------------------------------------------------------------------
(* Text.  A transcript is a list of runs [c, n]: n consecutive characters   *)
(* of class c.  Classes: "x" an ordinary character, "s" a space or tab,     *)
(* "n" a newline, "p" the full stop, "e" the exclamation mark, "q" the      *)
(* question mark, "c" the comma (the CJK punctuation of the patterns).      *)
(* Adjacent runs hold different classes.  Offsets are 0-based as in Python. *)

Run(c, n) == [c |-> c, n |-> n]

WhitespaceClasses == {"s", "n"}

IsWhitespace(c) == c \in WhitespaceClasses

RECURSIVE SumRuns(_, _)
SumRuns(t, k) == IF k = 0 THEN 0 ELSE t[k].n + SumRuns(t, k - 1)

\* len(text)
TextLen(t) == SumRuns(t, Len(t))

\* offsets [RunStart, RunEnd) of run k
RunStart(t, k) == SumRuns(t, k - 1)
RunEnd(t, k) == SumRuns(t, k)

SetMax(S) == CHOOSE m \in S : \A x \in S : x <= m
SetMin(S) == CHOOSE m \in S : \A x \in S : m <= x

\* the runs of t, restricted to offsets [a, b), whose class is in `classes`
RunsIn(t, a, b, classes) ==
  {k \in DOMAIN t : t[k].c \in classes /\ RunStart(t, k) < b /\ RunEnd(t, k) > a}

\* text[a:b].strip() == ''
IsBlank(t, a, b) ==
  RunsIn(t, a, Min(b, TextLen(t)), {"x", "p", "e", "q", "c"}) = {}

\* len(text[a:b].strip())
StrippedLength(t, a, b) ==
  LET hi == Min(b, TextLen(t))
      solid == RunsIn(t, a, hi, {"x", "p", "e", "q", "c"})
  IN IF solid = {}
     THEN 0
     ELSE SetMax({Min(RunEnd(t, k), hi) : k \in solid})
            - SetMin({Max(RunStart(t, k), a) : k \in solid})

\* the last run of the whitespace stretch that follows run k (k itself when
\* no whitespace follows)
LastWhitespaceRun(t, k) ==
  CHOOSE m \in k..Len(t) :
    /\ \A j \in (k + 1)..m : IsWhitespace(t[j].c)
    /\ m = Len(t) \/ ~IsWhitespace(t[m + 1].c)

----------------------------------------------------------------------------
(* Natural breakpoints: re.finditer of each pattern over                    *)
(* text[search_start:end_pos + 200], as absolute offsets of match.end().    *)
(* Of the matches of one maximal stretch only the last is kept: the code    *)
(* takes the last match that lies far enough from current_pos.              *)

MaxSegmentLength == 4000
OverlapLength == 200
SearchBack == 500
SearchAhead == 200
MinBreakDistance == 500

\* r'\n\n': non-overlapping pairs, leftmost first, inside each newline run
NewlinePairEnds(t, lo, hi) ==
  {Max(RunStart(t, k), lo)
     + 2 * ((Min(RunEnd(t, k), hi) - Max(RunStart(t, k), lo)) \div 2) :
   k \in {j \in RunsIn(t, lo, hi, {"n"}) :
            Min(RunEnd(t, j), hi) - Max(RunStart(t, j), lo) >= 2}}

\* the runs of punctuation class X whose last character lies in [lo, hi)
PunctuationRuns(t, X, lo, hi) ==
  {k \in DOMAIN t : t[k].c = X /\ lo <= RunEnd(t, k) - 1 /\ RunEnd(t, k) - 1 < hi}

\* where the whitespace after run k ends, cut at hi
WhitespaceEnd(t, k, hi) == Min(hi, RunEnd(t, LastWhitespaceRun(t, k)))

\* X\s*\n : greedy whitespace, backing off to the last newline of the stretch
PunctuationNewlineEnds(t, X, lo, hi) ==
  {SetMax({Min(RunEnd(t, j), WhitespaceEnd(t, k, hi)) :
             j \in RunsIn(t, RunEnd(t, k), WhitespaceEnd(t, k, hi), {"n"})}) :
   k \in {m \in PunctuationRuns(t, X, lo, hi) :
            RunsIn(t, RunEnd(t, m), WhitespaceEnd(t, m, hi), {"n"}) # {}}}

\* X\s+ : all the whitespace that follows
PunctuationSpaceEnds(t, X, lo, hi) ==
  {WhitespaceEnd(t, k, hi) :
   k \in {m \in PunctuationRuns(t, X, lo, hi) : WhitespaceEnd(t, m, hi) > RunEnd(t, m)}}

\* the list `patterns`, in priority order
PatternCount == 6

PatternEnds(t, pattern, lo, hi) ==
  CASE pattern = 1 -> NewlinePairEnds(t, lo, hi)
    [] pattern = 2 -> PunctuationNewlineEnds(t, "p", lo, hi)
    [] pattern = 3 -> PunctuationSpaceEnds(t, "p", lo, hi)
    [] pattern = 4 -> PunctuationNewlineEnds(t, "e", lo, hi)
    [] pattern = 5 -> PunctuationNewlineEnds(t, "q", lo, hi)
    [] pattern = 6 -> PunctuationNewlineEnds(t, "c", lo, hi)

\* one pass of the while loop: the breakpoint chosen from current_pos
best_breakpoint(t, current_pos, target_length) ==
  LET end_pos == Min(current_pos + target_length, TextLen(t))
      search_start == Max(current_pos + target_length - SearchBack, current_pos)
      search_end == Min(end_pos + SearchAhead, TextLen(t))
      matching == {pt \in 1..PatternCount : PatternEnds(t, pt, search_start, search_end) # {}}
  IN IF matching = {}
     THEN end_pos
     ELSE LET last_match == SetMax(PatternEnds(t, SetMin(matching), search_start, search_end))
          IN IF last_match > current_pos + MinBreakDistance
             THEN last_match
             ELSE end_pos

RECURSIVE BreakpointsFrom(_, _, _, _)
BreakpointsFrom(t, target_length, current_pos, found) ==
  IF current_pos >= TextLen(t)
  THEN found
  ELSE IF Min(current_pos + target_length, TextLen(t)) >= TextLen(t)
       THEN Append(found, TextLen(t))
       ELSE BreakpointsFrom(t, target_length,
                            best_breakpoint(t, current_pos, target_length),
                            Append(found, best_breakpoint(t, current_pos, target_length)))

find_natural_breakpoints(t, target_length) == BreakpointsFrom(t, target_length, 0, << >>)

----------------------------------------------------------------------------
(* AI boundary refinement.  A judge reply is [reply, result]: `reply` tells *)
(* what the request produced ("error": the request raised or timed out;     *)
(* "prose": text without braces; "invalid": braces whose content does not   *)
(* load as JSON; "json": an object that loads), and `result` is the loaded  *)
(* dict, holding any of optimized_start, optimized_end (offsets relative to *)
(* the context window) and confidence (in tenths).                          *)

ContextMargin == 200
MinOptimizedLength == 100
ConfidenceCutoff == 7

\* _call_ollama: the reply text, the empty string when the request fails
call_ollama(response) ==
  IF response.reply = "error" THEN "empty" ELSE response.reply

\* re.search(r'\{.*\}', response) matches and json.loads accepts the match
json_loaded(response) == call_ollama(response) = "json"

\* what is kept of a call of _optimize_segment_boundary: whether the reply
\* carried a confidence and which (in tenths), the offsets given and returned
BoundaryCall(response, original, returned) ==
  [has_confidence |-> json_loaded(response) /\ "confidence" \in DOMAIN response.result,
   confidence |-> IF json_loaded(response) THEN Get(response.result, "confidence", 0) ELSE 0,
   original |-> original,
   returned |-> returned]

\* variant: a reply that does not load leaves an empty range
optimize_segment_boundary_drop(t, start_pos, end_pos, response) ==
  LET context_start == Max(0, start_pos - ContextMargin)
      result == response.result
      proposed_start == context_start
                          + Get(result, "optimized_start", start_pos - context_start)
      proposed_end == context_start
                        + Get(result, "optimized_end", end_pos - context_start)
      new_start == Max(0, Min(proposed_start, TextLen(t)))
      new_end == Max(new_start + MinOptimizedLength, Min(proposed_end, TextLen(t)))
  IN IF ~json_loaded(response)
     THEN <<start_pos, start_pos>>
     ELSE IF Get(result, "confidence", 0) > ConfidenceCutoff
          THEN <<new_start, new_end>>
          ELSE <<start_pos, end_pos>>

optimize_segment_boundary(t, start_pos, end_pos, response) ==
  LET context_start == Max(0, start_pos - ContextMargin)
      result == response.result
      proposed_start == context_start
                          + Get(result, "optimized_start", start_pos - context_start)
      proposed_end == context_start
                        + Get(result, "optimized_end", end_pos - context_start)
      new_start == Max(0, Min(proposed_start, TextLen(t)))
      new_end == Max(new_start + MinOptimizedLength, Min(proposed_end, TextLen(t)))
  IN IF json_loaded(response) /\ Get(result, "confidence", 0) > ConfidenceCutoff
     THEN <<new_start, new_end>>
     ELSE <<start_pos, end_pos>>

\* a start placed after the previous breakpoint instead of before it
candidate_start_after(i) ==
  IF i = 1 THEN 0 ELSE breakpoints[i - 1] + OverlapLength

\* start_pos of the i-th candidate segment before refinement
candidate_start(i) ==
  IF i = 1 THEN 0 ELSE Max(0, breakpoints[i - 1] - OverlapLength)

\* segment_info, without the judge's analysis
SegmentInfo(t, start_pos, end_pos, is_optimized) ==
  [start_pos |-> start_pos, end_pos |-> end_pos,
   length |-> StrippedLength(t, start_pos, end_pos), is_optimized |-> is_optimized]

\* the body of the for loop once start_pos and end_pos are settled; `calls`
\* is the number of judge requests made before the coherence analysis
ExtractSegment(start_pos, end_pos, is_optimized, calls) ==
  /\ IF IsBlank(text, start_pos, end_pos)
     THEN /\ skipped' = skipped + 1
          /\ judge_calls' = judge_calls + calls
          /\ UNCHANGED segments
     ELSE /\ segments' = Append(segments, SegmentInfo(text, start_pos, end_pos, is_optimized))
          /\ judge_calls' = judge_calls + calls + 1
          /\ UNCHANGED skipped
  /\ seg_i' = seg_i + 1

----------------------------------------------------------------------------
(* The deterministic splitter of the optimizer.                             *)

CheckMaxLength == 4000
SimpleOverlap == 200
SimpleScanBack == 200
SimpleMinAdvance == 100

\* the last offset i in lo..hi with text[i] in '。？！\n', or -1
LastBreakChar(t, lo, hi) ==
  LET found == RunsIn(t, lo, hi + 1, {"p", "q", "e", "n"})
  IN IF found = {} THEN -1 ELSE SetMax({Min(RunEnd(t, k) - 1, hi) : k \in found})

SimpleSegmentInfo(start_pos, end_pos) ==
  [start_pos |-> start_pos, end_pos |-> end_pos, is_segmented |-> TRUE, method |-> "simple"]

\* variant: the scan for a sentence end goes back to the start of the pass
simple_end_whole_range(t, max_len, start_pos) ==
  LET limit == Min(start_pos + max_len, TextLen(t))
      at == IF limit < TextLen(t)
            THEN LastBreakChar(t, start_pos + 1, limit - 1)
            ELSE -1
  IN IF at >= 0 THEN at + 1 ELSE limit

\* the end of the pass that starts at `start`, moved back to just after the
\* last sentence end or newline of the scanned range
simple_end(t, max_len, start_pos) ==
  LET limit == Min(start_pos + max_len, TextLen(t))
      at == IF limit < TextLen(t)
            THEN LastBreakChar(t, Max(start_pos, limit - SimpleScanBack) + 1, limit - 1)
            ELSE -1
  IN IF at >= 0 THEN at + 1 ELSE limit

\* variant: the next start without the guard of a minimal advance
simple_next_start_overlap_only(max_len, start_pos, end) ==
  IF end - SimpleOverlap <= start_pos
  THEN start_pos + (max_len \div 2)
  ELSE end - SimpleOverlap

\* next_start: the overlap, at least SimpleMinAdvance ahead, forced when stuck
simple_next_start(max_len, start_pos, end) ==
  LET advanced == Max(end - SimpleOverlap, start_pos + SimpleMinAdvance)
  IN IF advanced <= start_pos THEN start_pos + (max_len \div 2) ELSE advanced

RECURSIVE SimpleFrom(_, _, _, _)
SimpleFrom(t, max_len, start_pos, found) ==
  IF start_pos >= TextLen(t)
  THEN found
  ELSE IF TextLen(t) - start_pos <= max_len
       THEN IF IsBlank(t, start_pos, TextLen(t))
            THEN found
            ELSE Append(found, SimpleSegmentInfo(start_pos, TextLen(t)))
       ELSE LET end == simple_end(t, max_len, start_pos)
            IN SimpleFrom(t, max_len, simple_next_start(max_len, start_pos, end),
                          IF IsBlank(t, start_pos, end)
                          THEN found
                          ELSE Append(found, SimpleSegmentInfo(start_pos, end)))

simple_segment(t, max_len) == SimpleFrom(t, max_len, 0, << >>)

----------------------------------------------------------------------------
(* Inputs of the segmentation.                                              *)

MaxRuns == 3

RunChoices ==
  {Run("x", 300), Run("x", 3700), Run("x", 8150),
   Run("s", 1), Run("s", 450), Run("s", 4100),
   Run("n", 1), Run("n", 2), Run("p", 1), Run("c", 1)}

Normalised(t) == \A k \in 1..(Len(t) - 1) : t[k].c # t[k + 1].c

Texts ==
  UNION {{t \in [1..n -> RunChoices] : Normalised(t)} : n \in 1..MaxRuns}

\* the judge's replies to the boundary prompt for a candidate [start_pos, end_pos)
StartShifts == {0, 250, 9000}
EndShifts == {0 - 300, 0}
Confidences == {7, 9}

BoundaryResponses(start_pos, end_pos) ==
  LET context_start == Max(0, start_pos - ContextMargin)
      relative_start == start_pos - context_start
      relative_end == end_pos - context_start
  IN {[reply |-> kind, result |-> EmptyDict] : kind \in {"error", "prose", "invalid"}}
     \cup {[reply |-> "json", result |-> EmptyDict],
           [reply |-> "json", result |-> [confidence |-> 9]]}
     \cup {[reply |-> "json",
            result |-> [optimized_start |-> relative_start + ds,
                        optimized_end |-> relative_end + de,
                        confidence |-> cf]] :
           ds \in StartShifts, de \in EndShifts, cf \in Confidences}

\* what evaluate_segments returns: the report, of which only the overall
\* quality (score in tenths) is read downstream; or it raises
QualityScores == {0, 59, 60, 85}

SegmentationReports ==
  {[segment_count |-> Len(segments), overall_quality |-> [score |-> sc]] :
   sc \in QualityScores}

----------------------------------------------------------------------------
(* The segmentation as a state machine: SemanticSplitter.split_text called  *)
(* directly, or MeetingOptimizer._check_and_segment_transcript, which calls *)
(* it with AI optimization at its default (enabled).                        *)

OptimizerIdle ==
  /\ strategies = CatalogEmpty
  /\ config = [max_iterations |-> DefaultMaxIterations,
               quality_threshold |-> QualityThreshold,
               min_improvement |-> MinImprovement,
               patience |-> DefaultPatience,
               strategy_max_count |-> 3,
               enable_early_stopping |-> TRUE,
               save_all_iterations |-> TRUE]
  /\ entry = "none"
  /\ pc = "idle"
  /\ iteration = 0
  /\ history = << >>
  /\ combination = << >>
  /\ path = "none"
  /\ minutes_content = "none"
  /\ saved = << >>
  /\ stop = <<FALSE, "">>
  /\ outcome = Running

InitSegment ==
  /\ OptimizerIdle
  /\ SelectorIdle
  /\ SimpleIdle
  /\ BatchIdle
  /\ BoundaryIdle
  /\ EvaluatorIdle
  /\ ConvergenceIdle
  /\ text \in Texts
  /\ \/ /\ seg_entry = "split_text"
        /\ enable_semantic_segmentation = TRUE
        /\ enable_ai_optimization \in BOOLEAN
     \/ /\ seg_entry = "_check_and_segment_transcript"
        /\ enable_semantic_segmentation \in BOOLEAN
        /\ enable_ai_optimization = TRUE
  /\ seg_pc = "start"
  /\ breakpoints = << >>
  /\ seg_i = 0
  /\ segments = << >>
  /\ skipped = 0
  /\ judge_calls = 0
  /\ boundary_parsed = FALSE
  /\ quality_result = EmptyDict
  /\ quality_score = 0
  /\ segmented_results = << >>

\* if len(transcript) <= max_length: return the transcript as one segment
CheckShort ==
  /\ seg_entry = "_check_and_segment_transcript"
  /\ seg_pc = "start"
  /\ TextLen(text) <= CheckMaxLength
  /\ segmented_results' = <<[start_pos |-> 0, end_pos |-> TextLen(text),
                             is_segmented |-> FALSE]>>
  /\ seg_pc' = "done"
  /\ UNCHANGED <<text, seg_entry, enable_semantic_segmentation, enable_ai_optimization,
                 boundary_parsed,
                 breakpoints, seg_i, segments, skipped, judge_calls, quality_result,
                 quality_score>>
  /\ UNCHANGED opt_vars
  /\ UNCHANGED sel_vars
  /\ UNCHANGED simple_vars
  /\ UNCHANGED batch_vars
  /\ UNCHANGED boundary_vars
  /\ UNCHANGED eval_vars
  /\ UNCHANGED conv_vars

\* if not self.enable_semantic_segmentation or not self.semantic_splitter
CheckDisabled ==
  /\ seg_entry = "_check_and_segment_transcript"
  /\ seg_pc = "start"
  /\ TextLen(text) > CheckMaxLength
  /\ ~enable_semantic_segmentation
  /\ segmented_results' = simple_segment(text, CheckMaxLength)
  /\ seg_pc' = "done"
  /\ UNCHANGED <<text, seg_entry, enable_semantic_segmentation, enable_ai_optimization,
                 boundary_parsed,
                 breakpoints, seg_i, segments, skipped, judge_calls, quality_result,
                 quality_score>>
  /\ UNCHANGED opt_vars
  /\ UNCHANGED sel_vars
  /\ UNCHANGED simple_vars
  /\ UNCHANGED batch_vars
  /\ UNCHANGED boundary_vars
  /\ UNCHANGED eval_vars
  /\ UNCHANGED conv_vars

\* split_text is entered: directly, or from _check_and_segment_transcript
SplitEntered ==
  /\ seg_pc = "start"
  /\ \/ seg_entry = "split_text"
     \/ /\ seg_entry = "_check_and_segment_transcript"
        /\ TextLen(text) > CheckMaxLength
        /\ enable_semantic_segmentation

\* what follows the return of split_text
AfterSplit == IF seg_entry = "split_text" THEN "done" ELSE "evaluate"

\* if len(text) <= self.max_segment_length: one segment, analysed by the judge
SplitShort ==
  /\ SplitEntered
  /\ TextLen(text) <= MaxSegmentLength
  /\ segments' = <<[start_pos |-> 0, end_pos |-> TextLen(text),
                    length |-> TextLen(text), is_optimized |-> FALSE]>>
  /\ judge_calls' = judge_calls + 1
  /\ seg_pc' = AfterSplit
  /\ UNCHANGED <<text, seg_entry, enable_semantic_segmentation, enable_ai_optimization,
                 boundary_parsed,
                 breakpoints, seg_i, skipped, quality_result, quality_score,
                 segmented_results>>
  /\ UNCHANGED opt_vars
  /\ UNCHANGED sel_vars
  /\ UNCHANGED simple_vars
  /\ UNCHANGED batch_vars
  /\ UNCHANGED boundary_vars
  /\ UNCHANGED eval_vars
  /\ UNCHANGED conv_vars

\* breakpoints = self._find_natural_breakpoints(text, self.max_segment_length)
SplitBegin ==
  /\ SplitEntered
  /\ TextLen(text) > MaxSegmentLength
  /\ breakpoints' = find_natural_breakpoints(text, MaxSegmentLength)
  /\ seg_i' = 1
  /\ seg_pc' = "loop"
  /\ UNCHANGED <<text, seg_entry, enable_semantic_segmentation, enable_ai_optimization,
                 boundary_parsed,
                 segments, skipped, judge_calls, quality_result, quality_score,
                 segmented_results>>
  /\ UNCHANGED opt_vars
  /\ UNCHANGED sel_vars
  /\ UNCHANGED simple_vars
  /\ UNCHANGED batch_vars
  /\ UNCHANGED boundary_vars
  /\ UNCHANGED eval_vars
  /\ UNCHANGED conv_vars

\* one pass of the for loop without refinement (AI disabled, or i == 0)
SplitSegmentPlain ==
  /\ seg_pc = "loop"
  /\ seg_i <= Len(breakpoints)
  /\ ~(enable_ai_optimization /\ seg_i > 1)
  /\ ExtractSegment(candidate_start(seg_i), breakpoints[seg_i], FALSE, 0)
  /\ UNCHANGED <<text, seg_entry, enable_semantic_segmentation, enable_ai_optimization,
                 boundary_parsed,
                 seg_pc, breakpoints, quality_result, quality_score, segmented_results>>
  /\ UNCHANGED opt_vars
  /\ UNCHANGED sel_vars
  /\ UNCHANGED simple_vars
  /\ UNCHANGED batch_vars
  /\ UNCHANGED boundary_vars
  /\ UNCHANGED eval_vars
  /\ UNCHANGED conv_vars

\* one pass of the for loop with the judge refining the boundary
SplitSegmentRefined ==
  /\ seg_pc = "loop"
  /\ seg_i <= Len(breakpoints)
  /\ enable_ai_optimization /\ seg_i > 1
  /\ \E response \in BoundaryResponses(candidate_start(seg_i), breakpoints[seg_i]) :
       LET original == <<candidate_start(seg_i), breakpoints[seg_i]>>
           optimized == optimize_segment_boundary(text, original[1], original[2], response)
       IN /\ ExtractSegment(optimized[1], optimized[2], optimized # original, 1)
          /\ boundary_parsed' = json_loaded(response)
          /\ boundary_call' = BoundaryCall(response, original, optimized)
  /\ UNCHANGED <<text, seg_entry, enable_semantic_segmentation, enable_ai_optimization,
                 seg_pc, breakpoints, quality_result, quality_score, segmented_results>>
  /\ UNCHANGED opt_vars
  /\ UNCHANGED sel_vars
  /\ UNCHANGED simple_vars
  /\ UNCHANGED batch_vars
  /\ UNCHANGED eval_vars
  /\ UNCHANGED conv_vars

\* the for loop is exhausted: return segments
SplitReturn ==
  /\ seg_pc = "loop"
  /\ seg_i > Len(breakpoints)
  /\ seg_pc' = AfterSplit
  /\ UNCHANGED <<text, seg_entry, enable_semantic_segmentation, enable_ai_optimization,
                 boundary_parsed,
                 breakpoints, seg_i, segments, skipped, judge_calls, quality_result,
                 quality_score, segmented_results>>
  /\ UNCHANGED opt_vars
  /\ UNCHANGED sel_vars
  /\ UNCHANGED simple_vars
  /\ UNCHANGED batch_vars
  /\ UNCHANGED boundary_vars
  /\ UNCHANGED eval_vars
  /\ UNCHANGED conv_vars

SegmentQualityThreshold == 60

\* the conversion of the splitter's segments to the optimizer's format
StandardFormat(segs) ==
  [i \in 1..Len(segs) |->
     [start_pos |-> segs[i].start_pos, end_pos |-> segs[i].end_pos, is_segmented |-> TRUE]]

\* quality_result = self.quality_evaluator.evaluate_segments(segments, transcript)
\* and the comparison of quality_score with the threshold
QualityGate(report) ==
  /\ seg_pc = "evaluate"
  /\ quality_result' = report
  /\ quality_score' = Get(report, "overall_score", 0)
  /\ segmented_results' = IF quality_score' < SegmentQualityThreshold
                          THEN simple_segment(text, CheckMaxLength)
                          ELSE StandardFormat(segments)
  /\ seg_pc' = "done"
  /\ UNCHANGED <<text, seg_entry, enable_semantic_segmentation, enable_ai_optimization,
                 boundary_parsed,
                 breakpoints, seg_i, segments, skipped, judge_calls>>
  /\ UNCHANGED opt_vars
  /\ UNCHANGED sel_vars
  /\ UNCHANGED simple_vars
  /\ UNCHANGED batch_vars
  /\ UNCHANGED boundary_vars
  /\ UNCHANGED eval_vars
  /\ UNCHANGED conv_vars

\* except Exception: the evaluator raised
EvaluatorRaises ==
  /\ seg_pc = "evaluate"
  /\ segmented_results' = simple_segment(text, CheckMaxLength)
  /\ seg_pc' = "done"
  /\ UNCHANGED <<text, seg_entry, enable_semantic_segmentation, enable_ai_optimization,
                 boundary_parsed,
                 breakpoints, seg_i, segments, skipped, judge_calls, quality_result,
                 quality_score>>
  /\ UNCHANGED opt_vars
  /\ UNCHANGED sel_vars
  /\ UNCHANGED simple_vars
  /\ UNCHANGED batch_vars
  /\ UNCHANGED boundary_vars
  /\ UNCHANGED eval_vars
  /\ UNCHANGED conv_vars

NextSegment ==
  \/ CheckShort
  \/ CheckDisabled
  \/ SplitShort
  \/ SplitBegin
  \/ SplitSegmentPlain
  \/ SplitSegmentRefined
  \/ SplitReturn
  \/ \E report \in SegmentationReports : QualityGate(report)
  \/ EvaluatorRaises

SpecSegment == InitSegment /\ [][NextSegment]_vars

----------------------------------------------------------------------------
(* Properties of the segmentation.                                          *)

\* split_text has returned from its long-text path
SplitReturned == seg_pc \in {"evaluate", "done"} /\ Len(breakpoints) > 0

\* _check_and_segment_transcript has returned after reading a report
GateDecided ==
  /\ seg_entry = "_check_and_segment_transcript"
  /\ seg_pc = "done"
  /\ "overall_quality" \in DOMAIN quality_result

\* C8: for a transcript over the length threshold with semantic
\* segmentation enabled, the result is the one of _simple_segment when the
\* report's overall quality score is below 6.0, and is the AI-assisted
\* segmentation when that score is 6.0 or more.
C8_QualityGate ==
  GateDecided =>
    IF quality_result.overall_quality.score < SegmentQualityThreshold
    THEN segmented_results = simple_segment(text, CheckMaxLength)
    ELSE segmented_results = StandardFormat(segments)

\* offset o lies in [start_pos, end_pos) of one of the segments
OffsetCovered(segs, o) ==
  \E i \in 1..Len(segs) : segs[i].start_pos <= o /\ o < segs[i].end_pos

\* every offset of [a, b) is covered: the least uncovered offset, if any,
\* is a or the end_pos of a segment
RangeCovered(segs, a, b) ==
  \A o \in {a} \cup {segs[i].end_pos : i \in 1..Len(segs)} :
    (a <= o /\ o < b) => OffsetCovered(segs, o)

\* none of the candidate ranges cut at the natural breakpoints is blank
CandidatesHaveText ==
  \A i \in 1..Len(breakpoints) : ~IsBlank(text, candidate_start(i), breakpoints[i])

\* C9: with refinement enabled, whatever the judge replies, every offset of
\* the input lies in the range of a returned segment.  Stated for the
\* inputs whose candidate ranges all hold text, where the split without
\* refinement covers every offset.
C9_RefinementKeepsText ==
  (SplitReturned /\ enable_ai_optimization /\ CandidatesHaveText)
    => RangeCovered(segments, 0, TextLen(text))

Ordered(segs) ==
  \A i \in 2..Len(segs) :
    /\ segs[i - 1].start_pos < segs[i].start_pos
    /\ segs[i - 1].end_pos < segs[i].end_pos

NoGap(segs) ==
  \A i \in 2..Len(segs) : segs[i].start_pos <= segs[i - 1].end_pos

SpansInput(segs, t) ==
  /\ Len(segs) > 0
  /\ segs[1].start_pos = 0
  /\ segs[Len(segs)].end_pos = TextLen(t)

DeterministicReturned == SplitReturned /\ ~enable_ai_optimization

\* C10 as stated: with AI optimization disabled and text longer than
\* max_segment_length, the returned segments are ordered, the first starts
\* at 0, the last ends at len(text), and each start is <= the previous end.
C10_DeterministicCoverage ==
  DeterministicReturned
    => Ordered(segments) /\ SpansInput(segments, text) /\ NoGap(segments)

\* every character that is not whitespace lies in a returned segment
TextCovered(segs, t) ==
  \A k \in DOMAIN t :
    ~IsWhitespace(t[k].c) => RangeCovered(segs, RunStart(t, k), RunEnd(t, k))

\* C10 amended: with AI optimization disabled and text longer than
\* max_segment_length, the returned segments are ordered and cover every
\* character that is not whitespace; a candidate range is left out exactly
\* when it is blank, and when none is left out the first segment starts at
\* 0, the last ends at len(text) and each start is <= the previous end.
C10_DeterministicCoverageOfText ==
  DeterministicReturned
    => /\ Ordered(segments)
       /\ TextCovered(segments, text)
       /\ Len(segments) + skipped = Len(breakpoints)
       /\ skipped = 0 <=> CandidatesHaveText
       /\ skipped = 0 => SpansInput(segments, text) /\ NoGap(segments)

\* a deterministic split of several segments, with overlap, nothing left out
C10_Witness ==
  /\ DeterministicReturned
  /\ skipped = 0
  /\ Len(segments) >= 2
  /\ segments[2].start_pos < segments[1].end_pos

\* C11: with AI optimization disabled and text longer than
\* max_segment_length, every returned segment holds at most
\* max_segment_length + overlap_length characters (its stripped text, which
\* is no longer than the range it spans).
C11_DeterministicLengthBound ==
  DeterministicReturned
    => \A i \in 1..Len(segments) :
         segments[i].length <= MaxSegmentLength + OverlapLength

\* the segmenter has returned for an input no longer than the threshold
ShortReturned == seg_pc = "done" /\ TextLen(text) <= MaxSegmentLength

\* C12: for an input no longer than max_length the segmenter returns exactly
\* one segment that is the whole input, marked as not optimized / not
\* segmented, and no call to the judge is made while producing it.
C12_ShortInputNoJudge ==
  ShortReturned =>
    /\ judge_calls = 0
    /\ IF seg_entry = "split_text"
       THEN segments = <<[start_pos |-> 0, end_pos |-> TextLen(text),
                          length |-> TextLen(text), is_optimized |-> FALSE]>>
       ELSE segmented_results = <<[start_pos |-> 0, end_pos |-> TextLen(text),
                                   is_segmented |-> FALSE]>>

\* a pass of the for loop in which the judge was asked about a boundary
RefinedStep ==
  /\ seg_pc = "loop"
  /\ enable_ai_optimization
  /\ seg_i > 1
  /\ seg_i' = seg_i + 1

\* C13: when the judge's reply for a boundary does not load (the request
\* raised or timed out, or the text holds no parsable JSON), that segment
\* keeps its deterministic range and is not marked optimized, the loop goes
\* on to the next boundary, and split_text returns with every boundary
\* processed.
C13_JudgeFailureKeepsBoundary ==
  [][ /\ (RefinedStep /\ ~boundary_parsed')
         => /\ seg_pc' = "loop"
            /\ IF IsBlank(text, candidate_start(seg_i), breakpoints[seg_i])
               THEN segments' = segments /\ skipped' = skipped + 1
               ELSE segments' = Append(segments,
                                       SegmentInfo(text, candidate_start(seg_i),
                                                   breakpoints[seg_i], FALSE))
      /\ (seg_pc = "loop" /\ seg_pc' # "loop")
         => /\ seg_pc' = AfterSplit
            /\ Len(segments) + skipped = Len(breakpoints)
            /\ UNCHANGED segments ]_vars

\* the reply for the second boundary did not load, its segment was kept
\* with the deterministic range, and a further boundary is about to be
\* processed
C13_Witness ==
  /\ seg_pc = "loop"
  /\ enable_ai_optimization
  /\ ~boundary_parsed
  /\ seg_i = 3
  /\ seg_i <= Len(breakpoints)
  /\ Len(segments) = 2
  /\ segments[2].start_pos = breakpoints[1] - OverlapLength
  /\ segments[2].end_pos = breakpoints[2]

----------------------------------------------------------------------------
(* The selector over the rounds of the loop, with the critique recorded.   *)

\* rounds whose result is recorded
MaxSelectorRounds == 3

SelectorCatalogs == {CatalogSymmetric, CatalogTotalConflict, CatalogTotalConflictOneSided}

SelectorConfigs ==
  {c \in Configs : c.max_iterations = DefaultMaxIterations /\ ~c.enable_early_stopping}

InitSelector ==
  /\ strategies \in SelectorCatalogs
  /\ config \in SelectorConfigs
  /\ entry = "optimize"
  /\ pc = "select"
  /\ iteration = 0
  /\ history = << >>
  /\ combination = << >>
  /\ path = "none"
  /\ minutes_content = "none"
  /\ saved = << >>
  /\ stop = <<FALSE, "">>
  /\ outcome = Running
  /\ SegmentationIdle
  /\ SelectorIdle
  /\ SimpleIdle
  /\ BatchIdle
  /\ BoundaryIdle
  /\ EvaluatorIdle
  /\ ConvergenceIdle

\* _select_strategy_combination asks for a critique only from the second
\* round on and with a non-empty history
CritiqueRequested(iter, hist) == iter # 0 /\ Len(hist) > 0

\* _select_strategy_combination(iteration, history), the critique included
SelectWithCritique(judge) ==
  /\ pc = "select"
  /\ CritiqueRequested(iteration, history) \/ judge = JudgeFailure
  /\ judge_output' = judge
  /\ improvements' = IF CritiqueRequested(iteration, history)
                     THEN improvements_outcome(judge)
                     ELSE Returned(EmptyDict)
  /\ combination' = select_strategy_combination(iteration, history, judge)
  /\ path' = selector_path(iteration, history, judge)
  /\ pc' = "generate"
  /\ history' = history_after_select(iteration, history, judge)
  /\ UNCHANGED <<strategies, config, entry, iteration, minutes_content, saved,
                 stop, outcome>>
  /\ UNCHANGED seg_vars
  /\ UNCHANGED simple_vars
  /\ UNCHANGED batch_vars
  /\ UNCHANGED boundary_vars
  /\ UNCHANGED eval_vars
  /\ UNCHANGED conv_vars

\* the round's minutes are scored and appended to the history; the critique
\* of the round was local to the selector's call
RoundRecorded(score) ==
  /\ pc = "generate"
  /\ iteration < MaxSelectorRounds
  /\ history' = Append(history, OptimizationResult(iteration, combination, score))
  /\ iteration' = iteration + 1
  /\ pc' = "select"
  /\ judge_output' = JudgeFailure
  /\ improvements' = Returned(EmptyDict)
  /\ UNCHANGED <<strategies, config, entry, combination, path, minutes_content, saved,
                 stop, outcome>>
  /\ UNCHANGED seg_vars
  /\ UNCHANGED simple_vars
  /\ UNCHANGED batch_vars
  /\ UNCHANGED boundary_vars
  /\ UNCHANGED eval_vars
  /\ UNCHANGED conv_vars

\* generation failed: the round leaves no entry in the history
RoundSkipped ==
  /\ pc = "generate"
  /\ iteration < MaxSelectorRounds
  /\ iteration' = iteration + 1
  /\ pc' = "select"
  /\ judge_output' = JudgeFailure
  /\ improvements' = Returned(EmptyDict)
  /\ UNCHANGED <<strategies, config, entry, history, combination, path, minutes_content,
                 saved, stop, outcome>>
  /\ UNCHANGED seg_vars
  /\ UNCHANGED simple_vars
  /\ UNCHANGED batch_vars
  /\ UNCHANGED boundary_vars
  /\ UNCHANGED eval_vars
  /\ UNCHANGED conv_vars

NextSelector ==
  \/ \E judge \in SelectorJudgeOutputs : SelectWithCritique(judge)
  \/ \E score \in Scores : RoundRecorded(score)
  \/ RoundSkipped

SpecSelector == InitSelector /\ [][NextSelector]_vars

\* the selector has returned in a round in which it asked for a critique
CritiqueReturned == pc = "generate" /\ CritiqueRequested(iteration, history)

\* C14: for every raw judge text (empty, prose, truncated JSON, a fenced
\* block that does not load, JSON whose strategy_adjustments is no object)
\* and for a failing subprocess, _get_strategy_improvements ends in a
\* returned value: no exception of the parse-and-validate step reaches
\* _select_strategy_combination.
C14_ParsingNeverRaises ==
  CritiqueReturned =>
    /\ ~improvements.raised
    /\ improvements.value = get_strategy_improvements(judge_output)

\* _validate_strategy_suggestions raised on strategy_adjustments: null, and
\* the caller was handed the empty dict
C14_Witness ==
  /\ CritiqueReturned
  /\ judge_output.returncode = 0
  /\ validate_raises(parse_improvement_suggestions(judge_output))
  /\ improvements = Returned(EmptyDict)

\* the critique gave nothing to apply: the call failed, no object could be
\* loaded from the text, or the object has no strategy_adjustments
NoUsableSuggestion(judge) ==
  \/ judge.returncode # 0
  \/ judge.text \notin {"fenced_json", "bare_json"}
  \/ "strategy_adjustments" \notin DOMAIN judge.parsed

\* C15: for an iteration index >= 1, when the critique yields no usable
\* suggestion, _select_strategy_combination returns exactly the combination
\* of the no-suggestion path for the same iteration index and history.
C15_MalformedFallsBack ==
  (pc = "generate" /\ iteration >= 1 /\ NoUsableSuggestion(judge_output))
    => combination = deterministic_selection(iteration, history)

\* _get_strategy_improvements handed a suggestion to the selector
SuggestionHanded ==
  /\ CritiqueReturned
  /\ "structured_suggestions" \in DOMAIN improvements.value

\* both strategy-adjustment fields are present
StructurallyComplete(suggestions) ==
  /\ "strategy_adjustments" \in DOMAIN suggestions
  /\ "add_strategies" \in DOMAIN suggestions["strategy_adjustments"]
  /\ "remove_strategies" \in DOMAIN suggestions["strategy_adjustments"]

\* C16: for every raw judge text, malformed or missing JSON included, the
\* suggestion handed to the selector holds the strategy-adjustment fields
\* (strategies to add, strategies to remove), absent ones defaulted to empty
\* collections.
C16_StructurallyComplete ==
  SuggestionHanded => StructurallyComplete(improvements.value["structured_suggestions"])

\* the judge's object asks to add exactly `adds` and to remove nothing
ProposesOnly(judge, adds) ==
  /\ judge.returncode = 0
  /\ judge.text \in {"fenced_json", "bare_json"}
  /\ "strategy_adjustments" \in DOMAIN judge.parsed
  /\ "add_strategies" \in DOMAIN judge.parsed["strategy_adjustments"]
  /\ judge.parsed["strategy_adjustments"]["add_strategies"] = adds
  /\ Get(judge.parsed["strategy_adjustments"], "remove_strategies", << >>) = << >>

\* Scenario D for the proposed strategy: the best historical combination is
\* full and every member of it conflicts with the proposed strategy
ScenarioD(proposed) ==
  /\ CritiqueReturned
  /\ ProposesOnly(judge_output, <<proposed>>)
  /\ InCatalog(proposed)
  /\ Len(best_result_of(history).strategy_combination) = config.strategy_max_count
  /\ \A i \in DOMAIN best_result_of(history).strategy_combination :
        Conflicting(proposed, best_result_of(history).strategy_combination[i])

\* C17: when the best historical combination already holds
\* strategy_max_count strategies and the suggestion removes nothing and
\* proposes one strategy that conflicts with every member, the selector
\* returns that combination unchanged and without the proposed strategy.
C17_ScenarioDUnchanged ==
  \A proposed \in {E1, A2, C2, D1} :
    ScenarioD(proposed) =>
      /\ combination = best_result_of(history).strategy_combination
      /\ ~InList(proposed, combination)

\* the selector applied a suggestion that lists strategies to remove
RemovalApplied ==
  /\ CritiqueReturned
  /\ path = "suggestion"
  /\ "remove_strategies" \in DOMAIN judge_output.parsed["strategy_adjustments"]

\* C18: no strategy listed in the suggestion's remove_strategies is a member
\* of the combination returned by _apply_improvement_suggestions, also when
\* the removals leave fewer than two strategies and the combination is
\* padded from the baseline pool.
C18_RemovalHonoured ==
  RemovalApplied =>
    \A i \in DOMAIN judge_output.parsed["strategy_adjustments"]["remove_strategies"] :
      ~InList(judge_output.parsed["strategy_adjustments"]["remove_strategies"][i],
              combination)

----------------------------------------------------------------------------
(* _simple_segment, one pass of its while loop at a time.                  *)

\* values of the argument max_length
MaxLengths == {1, 150, CheckMaxLength}

\* the length of the long transcript of the segmentation test
LongTextLength == 15000

\* texts of LongTextLength characters
LongTexts ==
  { <<Run("x", 15000)>>,
    <<Run("x", 3900), Run("p", 1), Run("x", 11099)>>,
    <<Run("x", 3801), Run("n", 1), Run("x", 11198)>>,
    <<Run("x", 7500), Run("s", 4000), Run("x", 3500)>>,
    <<Run("s", 4100), Run("x", 10899), Run("e", 1)>> }

SimpleTexts == Texts \cup LongTexts

InitSimple ==
  /\ OptimizerIdle
  /\ SelectorIdle
  /\ BatchIdle
  /\ BoundaryIdle
  /\ EvaluatorIdle
  /\ ConvergenceIdle
  /\ text \in SimpleTexts
  /\ max_length \in MaxLengths
  /\ start = 0
  /\ seg_entry = "simple_segment"
  /\ seg_pc = "simple_loop"
  /\ segments = << >>
  /\ skipped = 0
  /\ enable_semantic_segmentation = FALSE
  /\ enable_ai_optimization = FALSE
  /\ breakpoints = << >>
  /\ seg_i = 0
  /\ judge_calls = 0
  /\ boundary_parsed = FALSE
  /\ quality_result = EmptyDict
  /\ quality_score = 0
  /\ segmented_results = << >>

\* segments.append(...) when the stripped content is not empty
SimpleAppend(start_pos, end_pos) ==
  IF IsBlank(text, start_pos, end_pos)
  THEN segments' = segments /\ skipped' = skipped + 1
  ELSE /\ segments' = Append(segments, SimpleSegmentInfo(start_pos, end_pos))
       /\ skipped' = skipped

\* the pass for the rest of the text: remaining_length <= max_length, break
SimpleLastPass ==
  /\ seg_pc = "simple_loop"
  /\ start < TextLen(text)
  /\ TextLen(text) - start <= max_length
  /\ SimpleAppend(start, TextLen(text))
  /\ seg_pc' = "simple_done"
  /\ UNCHANGED <<text, seg_entry, enable_semantic_segmentation, enable_ai_optimization,
                 breakpoints, seg_i, judge_calls, boundary_parsed, quality_result,
                 quality_score, segmented_results>>
  /\ UNCHANGED simple_vars
  /\ UNCHANGED opt_vars
  /\ UNCHANGED sel_vars
  /\ UNCHANGED batch_vars
  /\ UNCHANGED boundary_vars
  /\ UNCHANGED eval_vars
  /\ UNCHANGED conv_vars

\* a pass that cuts one segment and moves start; the loop ends when the new
\* start is at or beyond the end of the text
SimplePass ==
  /\ seg_pc = "simple_loop"
  /\ start < TextLen(text)
  /\ TextLen(text) - start > max_length
  /\ SimpleAppend(start, simple_end(text, max_length, start))
  /\ start' = simple_next_start(max_length, start, simple_end(text, max_length, start))
  /\ seg_pc' = IF start' >= TextLen(text) THEN "simple_done" ELSE "simple_loop"
  /\ UNCHANGED <<text, seg_entry, enable_semantic_segmentation, enable_ai_optimization,
                 breakpoints, seg_i, judge_calls, boundary_parsed, quality_result,
                 quality_score, segmented_results, max_length>>
  /\ UNCHANGED opt_vars
  /\ UNCHANGED sel_vars
  /\ UNCHANGED batch_vars
  /\ UNCHANGED boundary_vars
  /\ UNCHANGED eval_vars
  /\ UNCHANGED conv_vars

NextSimple == SimpleLastPass \/ SimplePass

SpecSimple == InitSimple /\ [][NextSimple]_vars

\* the loop is never kept from making its next pass
FairSpecSimple == SpecSimple /\ WF_vars(NextSimple)

SimpleReturned == seg_pc = "simple_done"

\* C19: for every text and max_length >= 1, _simple_segment terminates;
\* each loop pass either ends the loop or advances the start offset by at
\* least 100 characters; and for max_length = 4000 a text of 15,000
\* characters yields fewer than 10 segments.
C19_SimpleSegmentTerminates ==
  /\ <>SimpleReturned
  /\ [][seg_pc = "simple_loop" =>
          \/ seg_pc' = "simple_done"
          \/ start' >= start + SimpleMinAdvance]_vars
  /\ []((SimpleReturned /\ max_length = CheckMaxLength
            /\ TextLen(text) = LongTextLength)
          => Len(segments) < 10)

\* a text of 15,000 characters was split with max_length = 4000 in several
\* passes
C19_Witness ==
  /\ SimpleReturned
  /\ max_length = CheckMaxLength
  /\ TextLen(text) = LongTextLength
  /\ Len(segments) >= 4
  /\ start >= 3 * SimpleMinAdvance

\* _simple_segment returned for a text longer than max_length = 4000 and
\* no pass of it cut a whitespace-only stretch
LongTextFullyKept ==
  /\ SimpleReturned
  /\ max_length = CheckMaxLength
  /\ TextLen(text) > max_length
  /\ skipped = 0

\* C20: for max_length = 4000 and a text longer than max_length without a
\* whitespace-only stretch, every returned segment, the last one included,
\* spans at least 100 characters, and each segment starts at or before the
\* end of the one before it.
C20_NoDegenerateSegments ==
  LongTextFullyKept =>
    /\ \A i \in 1..Len(segments) :
         segments[i].end_pos - segments[i].start_pos >= SimpleMinAdvance
    /\ \A i \in 1..(Len(segments) - 1) :
         segments[i + 1].start_pos <= segments[i].end_pos

\* a first segment cut back to a sentence end, and a last segment shorter
\* than max_length that starts inside the one before it
C20_Witness ==
  /\ LongTextFullyKept
  /\ Len(segments) >= 2
  /\ segments[1].end_pos < CheckMaxLength
  /\ segments[Len(segments)].end_pos - segments[Len(segments)].start_pos
       < CheckMaxLength
  /\ segments[Len(segments)].start_pos < segments[Len(segments) - 1].end_pos

----------------------------------------------------------------------------
(* The batch loops: main of the optimizer, batch_process_files and         *)
(* batch_process_directory.                                                *)

\* documents of a batch
MaxDocuments == 3

\* an exception other than the exhaustion error (unreadable file, failing
\* subprocess)
OSError == [kind |-> "raised", value |-> "OSError"]

\* a document of the batch: whether it can be read, and the history its
\* rounds leave (empty when every round failed)
Document(readable, hist) == [readable |-> readable, history |-> hist]

Documents ==
  { Document(TRUE, << >>),
    Document(TRUE, <<OptimizationResult(0, BaselineCombination, 85)>>),
    Document(FALSE, << >>) }

\* what processing one document does: it returns a result, it raises the
\* exhaustion error of optimize_transcript, or it raises something else
document_outcome(doc) ==
  IF doc.readable THEN optimize_transcript_outcome(doc.history) ELSE OSError

BatchEntries == {"main", "batch_process_files", "batch_process_directory"}

\* the for body wraps the processing in try / except Exception
CaughtInLoop(loop) == loop \in {"main", "batch_process_files"}

\* process_transcript_file wraps its work in try / except Exception and
\* returns a dict with the key "error"
CaughtInCallee(loop) == loop = "batch_process_directory"

\* variant: no handler between the document and the loop
escapes_loop_unhandled(loop, doc) == document_outcome(doc).kind = "raised"

\* the exception of a document leaves the for loop
escapes_loop(loop, doc) ==
  /\ document_outcome(doc).kind = "raised"
  /\ ~CaughtInLoop(loop)
  /\ ~CaughtInCallee(loop)

\* the record of document number i
DocumentRecord(i, doc) ==
  [document |-> i,
   status |-> IF document_outcome(doc).kind = "raised" THEN "error" ELSE "ok"]

InitBatch ==
  /\ OptimizerIdle
  /\ SegmentationIdle
  /\ SelectorIdle
  /\ SimpleIdle
  /\ BoundaryIdle
  /\ EvaluatorIdle
  /\ ConvergenceIdle
  /\ batch_entry \in BatchEntries
  /\ documents \in UNION {[1..n -> Documents] : n \in 1..MaxDocuments}
  /\ doc_index = 0
  /\ batch_results = << >>
  /\ batch_pc = "loop"

BatchFrame ==
  UNCHANGED <<opt_vars, seg_vars, sel_vars, simple_vars, boundary_vars, eval_vars, conv_vars,
              batch_entry, documents>>

\* one pass of the for loop over a document that is processed to its end
DocumentSucceeds ==
  /\ batch_pc = "loop"
  /\ doc_index < Len(documents)
  /\ document_outcome(documents[doc_index + 1]).kind = "returned"
  /\ batch_results' = Append(batch_results,
                             DocumentRecord(doc_index + 1, documents[doc_index + 1]))
  /\ doc_index' = doc_index + 1
  /\ batch_pc' = "loop"
  /\ BatchFrame

\* one pass of the for loop over a document whose processing raises
DocumentFails ==
  /\ batch_pc = "loop"
  /\ doc_index < Len(documents)
  /\ document_outcome(documents[doc_index + 1]).kind = "raised"
  /\ IF escapes_loop(batch_entry, documents[doc_index + 1])
     THEN /\ batch_pc' = "aborted"
          /\ UNCHANGED <<batch_results, doc_index>>
     ELSE /\ batch_results' = Append(batch_results,
                                     DocumentRecord(doc_index + 1, documents[doc_index + 1]))
          /\ doc_index' = doc_index + 1
          /\ batch_pc' = "loop"
  /\ BatchFrame

\* the for loop is over
BatchReturns ==
  /\ batch_pc = "loop"
  /\ doc_index = Len(documents)
  /\ batch_pc' = "done"
  /\ UNCHANGED <<batch_results, doc_index>>
  /\ UNCHANGED boundary_vars
  /\ UNCHANGED eval_vars
  /\ UNCHANGED conv_vars
  /\ BatchFrame

NextBatch == DocumentSucceeds \/ DocumentFails \/ BatchReturns

SpecBatch == InitBatch /\ [][NextBatch]_vars

\* C21: an error while processing one document of a batch (exhaustion or
\* any raised exception) is recorded for that document only, and every
\* later document of the list is still processed.
C21_BatchIsolation ==
  /\ batch_pc # "aborted"
  /\ Len(batch_results) = doc_index
  /\ \A i \in 1..doc_index : batch_results[i] = DocumentRecord(i, documents[i])
  /\ batch_pc = "done" => doc_index = Len(documents)

\* the first document was exhausted, a later one raised something else, and
\* the document after each of them was processed
C21_Witness ==
  /\ batch_pc = "done"
  /\ Len(documents) = 3
  /\ documents[1] = Document(TRUE, << >>)
  /\ batch_results[1].status = "error"
  /\ batch_results[2].status = "ok"
  /\ documents[3] = Document(FALSE, << >>)
  /\ batch_results[3].status = "error"

----------------------------------------------------------------------------
(* History of optimize_transcript.                                         *)

\* the entries' iteration indices are strictly increasing
IndicesIncreasing(hist) ==
  \A i \in 1..(Len(hist) - 1) : hist[i].iteration < hist[i + 1].iteration

\* one step appends exactly one entry, for the current round, and leaves
\* the entries before it as they were
AppendsCurrentRound ==
  /\ Len(history') = Len(history) + 1
  /\ SubSeq(history', 1, Len(history)) = history
  /\ history'[Len(history')].iteration = iteration
  /\ iteration < config.max_iterations

\* C22: in every reachable state of optimize_transcript the history is only
\* appended to, holds at most one entry per round, its iteration indices
\* are strictly increasing, its length never exceeds max_iterations,
\* appended entries are never modified, and the loop ends after at most
\* max_iterations rounds.
C22_HistoryDiscipline ==
  /\ [][history' = history \/ AppendsCurrentRound]_vars
  /\ [](/\ IndicesIncreasing(history)
        /\ Len(history) <= config.max_iterations
        /\ \A i \in DOMAIN history : history[i].iteration < config.max_iterations
        /\ iteration <= config.max_iterations
        /\ pc \in {"select", "generate"} => iteration < config.max_iterations)

\* a run of five rounds has ended in which one round failed and the four
\* others were recorded
C22_Witness ==
  /\ pc = "done"
  /\ config.max_iterations = DefaultMaxIterations
  /\ iteration = DefaultMaxIterations
  /\ Len(history) = DefaultMaxIterations - 1
  /\ history[2].iteration = 2

----------------------------------------------------------------------------
(* Replacement in a full combination.                                      *)

\* the best historical combination, the base of the suggestion path
BaseCombination == best_result_of(history).strategy_combination

\* the largest number of members of the base that share a dimension
MaxDimensionCount(current_strategies) ==
  LET counts == {DimensionCount(current_strategies, get_strategy_dimension(current_strategies[i])) :
                   i \in DOMAIN current_strategies}
  IN CHOOSE m \in counts : \A c \in counts : c <= m

\* the suggestion proposes one strategy that cannot be added directly (the
\* base is full, the strategy is new and conflict-free) and the base has no
\* member of its dimension
ReplacementCase(proposed) ==
  /\ CritiqueReturned
  /\ path = "suggestion"
  /\ ProposesOnly(judge_output, <<proposed>>)
  /\ InCatalog(proposed)
  /\ ~InList(proposed, BaseCombination)
  /\ ~has_strategy_conflicts(proposed, BaseCombination)
  /\ Len(BaseCombination) = config.strategy_max_count
  /\ DimensionCount(BaseCombination, get_strategy_dimension(proposed)) = 0

\* the members of the base whose slot holds another strategy on return
SwappedOut ==
  {BaseCombination[i] : i \in {j \in DOMAIN BaseCombination :
                                  combination[j] # BaseCombination[j]}}

\* C23: when a suggested strategy cannot be added directly and no member of
\* its dimension exists, a replacement swaps out a member of the most
\* over-represented dimension and never a member whose dimension is Role
\* or Structure.
C23_ProtectedDimensions ==
  \A proposed \in {E1, C2, D1, A2} :
    ReplacementCase(proposed) =>
      /\ Len(combination) = Len(BaseCombination)
      /\ \A member \in SwappedOut :
           /\ get_strategy_dimension(member) \notin critical_dimensions
           /\ DimensionCount(BaseCombination, get_strategy_dimension(member))
                = MaxDimensionCount(BaseCombination)

----------------------------------------------------------------------------
(* Late-round fine-tuning.                                                 *)

\* the selector was called with an iteration index >= 3 and a non-empty
\* history and the critique gave no suggestion: lines 150-163 decide
FineTuneCase ==
  /\ CritiqueReturned
  /\ iteration >= 3
  /\ get_strategy_improvements(judge_output) = EmptyDict

\* the slots in which the returned combination differs from the base
ChangedSlots ==
  {j \in DOMAIN BaseCombination : combination[j] # BaseCombination[j]}

\* C24: on the no-suggestion path with iteration index i >= 3 and a
\* non-empty history, the returned combination differs from the best
\* historical combination in exactly one slot, the slot i mod
\* len(combination), the new member is element i mod pool_size of the pool
\* of that slot's dimension, and the call is a function of its inputs.
C24_FineTuneOneSlot ==
  FineTuneCase =>
    /\ Len(BaseCombination) > 0
    /\ Len(combination) = Len(BaseCombination)
    /\ LET replace_idx == (iteration % Len(BaseCombination)) + 1
           pool == get_dimension_strategies(get_strategy_dimension(BaseCombination[replace_idx]))
       IN /\ ChangedSlots = {replace_idx}
          /\ pool # << >>
          /\ combination[replace_idx] = pool[(iteration % Len(pool)) + 1]
    /\ combination = select_strategy_combination(iteration, history, judge_output)

----------------------------------------------------------------------------
(* The validation of a suggestion.                                         *)

\* the greedy filter as the sentence states it: catalog ids in the given
\* order, each accepted when no id accepted before it conflicts with it
RECURSIVE AcceptedInOrder(_, _)
AcceptedInOrder(ids, accepted) ==
  IF ids = << >>
  THEN accepted
  ELSE IF /\ InCatalog(Head(ids))
          /\ \A i \in DOMAIN accepted : ~Conflicting(accepted[i], Head(ids))
       THEN AcceptedInOrder(Tail(ids), Append(accepted, Head(ids)))
       ELSE AcceptedInOrder(Tail(ids), accepted)

\* the judge wrote an object with both lists and the validation returned
SuggestionValidated ==
  /\ CritiqueReturned
  /\ ~NoUsableSuggestion(judge_output)
  /\ {"add_strategies", "remove_strategies"}
       \subseteq DOMAIN judge_output.parsed["strategy_adjustments"]
  /\ "structured_suggestions" \in DOMAIN improvements.value

SuggestedAdjustments == judge_output.parsed["strategy_adjustments"]

ValidatedAdjustments ==
  improvements.value["structured_suggestions"]["strategy_adjustments"]

\* C25: the add list of _validate_strategy_suggestions is the suggested ids
\* in their order, without the ids missing from the catalog and without each
\* id that conflicts with an id accepted before it; the remove list is the
\* suggested ids that exist in the catalog.
C25_ValidationFilter ==
  SuggestionValidated =>
    /\ ValidatedAdjustments["add_strategies"]
         = AcceptedInOrder(SuggestedAdjustments["add_strategies"], << >>)
    /\ ValidatedAdjustments["remove_strategies"]
         = SelectSeq(SuggestedAdjustments["remove_strategies"], InCatalog)

----------------------------------------------------------------------------
(* The confidence cutoff of the boundary refinement.                       *)

\* _optimize_segment_boundary has been called and has returned
BoundaryCalled == boundary_call.original # <<0, 0>>

\* the reply carried a confidence strictly above 0.7
ConfidentReply ==
  boundary_call.has_confidence /\ boundary_call.confidence > ConfidenceCutoff

\* C26: _optimize_segment_boundary returns offsets other than the
\* deterministic pair only when the reported confidence is strictly above
\* 0.7; for a confidence of at most 0.7 or a missing confidence it returns
\* the deterministic pair, and the offsets it returns satisfy
\* 0 <= start <= end <= len(text).
C26_ConfidenceCutoff ==
  BoundaryCalled =>
    /\ boundary_call.returned # boundary_call.original => ConfidentReply
    /\ ~ConfidentReply => boundary_call.returned = boundary_call.original
    /\ 0 <= boundary_call.returned[1]
    /\ boundary_call.returned[1] <= boundary_call.returned[2]
    /\ boundary_call.returned[2] <= TextLen(text)

----------------------------------------------------------------------------
(* The segmentation quality evaluator of scripts/segment_quality_eval.py.  *)
(* Its scores are kept in 1/1440 of a point, so that the means the code    *)
(* takes (over at most four segments, then over at most four components)   *)
(* are whole numbers.                                                      *)

Point == 1440

\* self.quality_thresholds["acceptable"], 5.5
AcceptableScore == (11 * Point) \div 2

ShortLength == 100
LongLength == 6000

\* segments whose list is evaluated
MaxEvalSegments == 3

\* a segment as the evaluator reads it: whether it carries a non-empty
\* analysis, the analysis's scores, metadata["length"], and whether its
\* text starts or ends with a separator mark
EvalSegment(has_analysis, overall, semantic, topic, length, punctuation) ==
  [has_analysis |-> has_analysis, overall_score |-> overall,
   semantic_completeness |-> semantic, topic_consistency |-> topic,
   length |-> length, punctuation |-> punctuation]

EvalSegmentChoices ==
  { EvalSegment(FALSE, 0, 0, 0, 50, FALSE),
    EvalSegment(FALSE, 0, 0, 0, 6500, FALSE),
    EvalSegment(TRUE, 8 * Point, 8 * Point, 8 * Point, 3000, FALSE),
    EvalSegment(TRUE, 4 * Point, (5 * Point) \div 2, (5 * Point) \div 2, 50, TRUE),
    EvalSegment(TRUE, 7 * Point, 6 * Point, 5 * Point, 6001, FALSE),
    EvalSegment(TRUE, 9 * Point, 9 * Point, 9 * Point, ShortLength, FALSE),
    EvalSegment(TRUE, 6 * Point, 7 * Point, 7 * Point, LongLength, FALSE) }

\* average_boundary_score when the judge scored the boundaries
BoundaryScoreChoices == {4 * Point, 7 * Point, 10 * Point}

\* balance_score of segments of unequal lengths: max(0, 10 - cv * 20)
UnevenBalanceChoices == {0, 5 * Point}

\* overall_coverage as the judge reports it; 8.0 when the reply has none
CoverageChoices == {8 * Point, 10 * Point}

Issue(segment_id, issue_type) == [segment_id |-> segment_id, issue_type |-> issue_type]

\* the issues detect_quality_issues appends for one segment
SegmentIssues(segment_id, segment) ==
  IF ~segment.has_analysis
  THEN << >>
  ELSE (IF segment.semantic_completeness < AcceptableScore
        THEN <<Issue(segment_id, "semantic")>> ELSE << >>)
       \o (IF segment.length < ShortLength
           THEN <<Issue(segment_id, "too_short")>>
           ELSE IF segment.length > LongLength
                THEN <<Issue(segment_id, "too_long")>>
                ELSE << >>)
       \o (IF segment.topic_consistency < AcceptableScore
           THEN <<Issue(segment_id, "topic")>> ELSE << >>)
       \o (IF segment.punctuation
           THEN <<Issue(segment_id, "boundary")>> ELSE << >>)

\* detect_quality_issues over the first k segments
RECURSIVE IssuesUpTo(_, _)
IssuesUpTo(segs, k) ==
  IF k = 0 THEN << >> ELSE IssuesUpTo(segs, k - 1) \o SegmentIssues(k, segs[k])

detect_quality_issues(segs) == IssuesUpTo(segs, Len(segs))

RECURSIVE SumSeq(_, _)
SumSeq(values, k) == IF k = 0 THEN 0 ELSE values[k] + SumSeq(values, k - 1)

\* statistics.mean
Mean(values) == SumSeq(values, Len(values)) \div Len(values)

\* segment_scores: the overall_score of every analysed segment
SegmentScores(segs) ==
  LET analysed == SelectSeq(segs, LAMBDA segment : segment.has_analysis)
  IN [i \in DOMAIN analysed |-> analysed[i].overall_score]

\* evaluate_segment_balance: 0.0 for no segment, 10 for equal lengths
BalanceScores(segs) ==
  IF segs = << >>
  THEN {0}
  ELSE IF \A i, j \in DOMAIN segs : segs[i].length = segs[j].length
       THEN {10 * Point}
       ELSE UnevenBalanceChoices

\* evaluate_segment_boundaries: 10.0 when there is no boundary
BoundaryScores(segs) ==
  IF Len(segs) > 1 THEN BoundaryScoreChoices ELSE {10 * Point}

\* quality_components of step 7
QualityComponents(segs, results) ==
  (IF SegmentScores(segs) # << >> THEN <<Mean(SegmentScores(segs))>> ELSE << >>)
    \o <<results["boundary_quality"], results["balance_quality"]>>
    \o (IF "coverage_quality" \in DOMAIN results
        THEN <<results["coverage_quality"]>> ELSE << >>)

\* min(2.0, len(issues) * 0.2)
issue_penalty(found) == Min(2 * Point, Len(found) * (Point \div 5))

\* overall_score of step 7, the penalty applied
overall_quality(segs, results, found) ==
  Max(0, Mean(QualityComponents(segs, results)) - issue_penalty(found))

\* the number of segments generate_improvement_suggestions asks the judge about
SegmentsWithIssues(found) == Cardinality({found[i].segment_id : i \in DOMAIN found})

InitEvaluate ==
  /\ strategies = CatalogNoConflicts
  /\ config \in {c \in Configs : c.max_iterations = DefaultMaxIterations /\ c.strategy_max_count = 3
                                  /\ c.enable_early_stopping}
  /\ entry = "optimize"
  /\ pc = "done"
  /\ iteration = 0
  /\ history = << >>
  /\ combination = << >>
  /\ path = "none"
  /\ minutes_content = "none"
  /\ saved = << >>
  /\ stop = <<FALSE, "">>
  /\ outcome = Running
  /\ SegmentationIdle
  /\ SelectorIdle
  /\ SimpleIdle
  /\ BatchIdle
  /\ BoundaryIdle
  /\ ConvergenceIdle
  /\ eval_segments \in UNION {[1..n -> EvalSegmentChoices] : n \in 0..MaxEvalSegments}
  /\ original_supplied \in BOOLEAN
  /\ eval_pc = "components"
  /\ evaluation_results = EmptyDict
  /\ issues = << >>
  /\ overall_score = 0
  /\ eval_judge_calls = 0

EvaluateFrame ==
  /\ UNCHANGED opt_vars
  /\ UNCHANGED seg_vars
  /\ UNCHANGED sel_vars
  /\ UNCHANGED simple_vars
  /\ UNCHANGED batch_vars
  /\ UNCHANGED boundary_vars
  /\ UNCHANGED conv_vars

\* steps 1 to 4: the boundary, balance and coverage evaluations
EvaluateComponents(boundary, balance, coverage) ==
  /\ eval_pc = "components"
  /\ boundary \in BoundaryScores(eval_segments)
  /\ balance \in BalanceScores(eval_segments)
  /\ evaluation_results' =
       IF original_supplied
       THEN [boundary_quality |-> boundary, balance_quality |-> balance,
             coverage_quality |-> coverage]
       ELSE [boundary_quality |-> boundary, balance_quality |-> balance]
  /\ eval_judge_calls' = eval_judge_calls + Max(0, Len(eval_segments) - 1)
                           + (IF original_supplied THEN 1 ELSE 0)
  /\ eval_pc' = "issues"
  /\ UNCHANGED <<eval_segments, original_supplied, issues, overall_score>>
  /\ EvaluateFrame

\* step 5: issues = self.detect_quality_issues(segments)
DetectIssues ==
  /\ eval_pc = "issues"
  /\ issues' = detect_quality_issues(eval_segments)
  /\ eval_pc' = "suggestions"
  /\ UNCHANGED <<eval_segments, original_supplied, evaluation_results, overall_score,
                 eval_judge_calls>>
  /\ EvaluateFrame

\* step 6: one request per segment that has issues
GenerateSuggestions ==
  /\ eval_pc = "suggestions"
  /\ eval_judge_calls' = eval_judge_calls + SegmentsWithIssues(issues)
  /\ eval_pc' = "score"
  /\ UNCHANGED <<eval_segments, original_supplied, evaluation_results, issues,
                 overall_score>>
  /\ EvaluateFrame

\* step 7: the overall quality
ComputeOverall ==
  /\ eval_pc = "score"
  /\ overall_score' = overall_quality(eval_segments, evaluation_results, issues)
  /\ eval_pc' = "done"
  /\ UNCHANGED <<eval_segments, original_supplied, evaluation_results, issues,
                 eval_judge_calls>>
  /\ EvaluateFrame

NextEvaluate ==
  \/ \E boundary \in BoundaryScoreChoices \cup {10 * Point},
        balance \in UnevenBalanceChoices \cup {10 * Point},
        coverage \in CoverageChoices :
       EvaluateComponents(boundary, balance, coverage)
  \/ DetectIssues
  \/ GenerateSuggestions
  \/ ComputeOverall

SpecEvaluate == InitEvaluate /\ [][NextEvaluate]_vars

\* the weights of the sentence, in tenths
ComponentWeights == [individual |-> 4, boundary |-> 3, balance |-> 2, coverage |-> 1]

\* the sum of weight * component over the available components
WeightedSum ==
  (IF SegmentScores(eval_segments) # << >>
   THEN ComponentWeights.individual * Mean(SegmentScores(eval_segments)) ELSE 0)
  + ComponentWeights.boundary * evaluation_results["boundary_quality"]
  + ComponentWeights.balance * evaluation_results["balance_quality"]
  + (IF original_supplied
     THEN ComponentWeights.coverage * evaluation_results["coverage_quality"] ELSE 0)

\* the sum of the weights of the available components
TotalWeight ==
  (IF SegmentScores(eval_segments) # << >> THEN ComponentWeights.individual ELSE 0)
  + ComponentWeights.boundary + ComponentWeights.balance
  + (IF original_supplied THEN ComponentWeights.coverage ELSE 0)

\* C27: the overall quality score of evaluate_segments is the weighted mean
\* of the available components (individual 0.4, boundary 0.3, balance 0.2,
\* coverage 0.1 when the original text is supplied) minus 0.2 per issue, the
\* penalty capped at 2.0, and lies in [0, 10].
C27_OverallQualityWeighted ==
  eval_pc = "done" =>
    /\ overall_score * TotalWeight
         = Max(0, WeightedSum - issue_penalty(issues) * TotalWeight)
    /\ 0 <= overall_score
    /\ overall_score <= 10 * Point

\* detect_quality_issues has returned
IssuesDetected == eval_pc \in {"suggestions", "score", "done"}

HasIssue(segment_id, issue_type) ==
  \E k \in DOMAIN issues : issues[k] = Issue(segment_id, issue_type)

\* C28: for every segment of the list given to detect_quality_issues, with
\* or without analysis data, a length below 100 yields a too-short issue for
\* its segment id and a length above 6000 a too-long issue, and issue
\* detection makes no judge call.
C28_LengthIssuesReported ==
  /\ [](IssuesDetected =>
          \A i \in DOMAIN eval_segments :
            /\ eval_segments[i].length < ShortLength => HasIssue(i, "too_short")
            /\ eval_segments[i].length > LongLength => HasIssue(i, "too_long"))
  /\ [][eval_pc = "issues" => eval_judge_calls' = eval_judge_calls]_vars

----------------------------------------------------------------------------
(* The selector leaves the history alone.                                  *)

\* a call of _select_strategy_combination
SelectorCall == pc = "select" /\ pc' = "generate"

\* C29: after any call of _select_strategy_combination, on every path
\* (direct add, same-dimension replacement, dimension-balance replacement,
\* baseline padding, single-slot fine-tuning), the history list and the
\* strategy_combination of every entry, the best-scoring entry included,
\* are as before the call.
C29_HistoryUntouched == [][SelectorCall => history' = history]_vars

\* a suggestion was applied to the first round's combination, the best so
\* far, and the returned combination differs from it
C29_Witness ==
  /\ CritiqueReturned
  /\ path = "suggestion"
  /\ BestIndex(history) = 1
  /\ history[1].strategy_combination = BaselineCombination
  /\ combination # BaselineCombination

----------------------------------------------------------------------------
(* The ConvergenceMonitor of scripts/convergence_optimizer.py.  Scores in   *)
(* hundredths.                                                             *)

\* update calls made on one monitor
MaxUpdates == 6

\* the defaults of ConvergenceMonitor.__init__: 0.01 and 3
DefaultMinImprovement == 1
MonitorPatience == 3

\* -float('inf'), below every score
MinusInfinity == 0 - 1

ConvergenceScores == {50, 51, 52, 60, 90}

\* ConvergenceMonitor.__init__
ConvergenceMonitor(min_improvement, patience) ==
  [min_improvement |-> min_improvement, patience |-> patience,
   best_score |-> MinusInfinity, no_improvement_epochs |-> 0, converged |-> FALSE]

\* improvement > self.min_improvement, for improvement = score - best_score
Improves(score, best_score, min_improvement) ==
  best_score = MinusInfinity \/ score - best_score > min_improvement

\* ConvergenceMonitor.update: the object after the call
update(self, score) ==
  LET epochs == IF Improves(score, self.best_score, self.min_improvement)
                THEN 0 ELSE self.no_improvement_epochs + 1
  IN [self EXCEPT
        !.best_score = IF Improves(score, self.best_score, self.min_improvement)
                       THEN score ELSE @,
        !.no_improvement_epochs = epochs,
        !.converged = epochs >= self.patience]

InitConvergence ==
  /\ strategies = CatalogNoConflicts
  /\ config \in {c \in Configs : c.max_iterations = DefaultMaxIterations /\ c.strategy_max_count = 3
                                  /\ c.enable_early_stopping}
  /\ entry = "optimize"
  /\ pc = "done"
  /\ iteration = 0
  /\ history = << >>
  /\ combination = << >>
  /\ path = "none"
  /\ minutes_content = "none"
  /\ saved = << >>
  /\ stop = <<FALSE, "">>
  /\ outcome = Running
  /\ SegmentationIdle
  /\ SelectorIdle
  /\ SimpleIdle
  /\ BatchIdle
  /\ BoundaryIdle
  /\ EvaluatorIdle
  /\ monitor \in {ConvergenceMonitor(min_improvement, patience) :
                    min_improvement \in {DefaultMinImprovement, 5 * DefaultMinImprovement},
                    patience \in 1..MonitorPatience}
  /\ updates = << >>

\* converged = monitor.update(score)
Update(score) ==
  /\ monitor # EmptyDict
  /\ Len(updates) < MaxUpdates
  /\ monitor' = update(monitor, score)
  /\ updates' = Append(updates, [score |-> score, best_before |-> monitor.best_score,
                                 returned |-> update(monitor, score).converged])
  /\ UNCHANGED opt_vars
  /\ UNCHANGED seg_vars
  /\ UNCHANGED sel_vars
  /\ UNCHANGED simple_vars
  /\ UNCHANGED batch_vars
  /\ UNCHANGED boundary_vars
  /\ UNCHANGED eval_vars

NextConvergence == \E score \in ConvergenceScores : Update(score)

SpecConvergence == InitConvergence /\ [][NextConvergence]_vars

\* the update did not exceed the best score of its time by more than
\* min_improvement
NotImproving(call) ==
  /\ call.best_before # MinusInfinity
  /\ call.score - call.best_before <= monitor.min_improvement

\* the number of most recent consecutive updates that were not improving
RECURSIVE TrailingNotImproving(_)
TrailingNotImproving(k) ==
  IF k = 0 \/ ~NotImproving(updates[k]) THEN 0 ELSE 1 + TrailingNotImproving(k - 1)

\* C30: after any sequence of update(score) calls, best_score has never
\* decreased, no_improvement_epochs is the number of most recent consecutive
\* updates whose score did not exceed the best score of their time by more
\* than min_improvement, converged is (no_improvement_epochs >= patience),
\* and once update has returned converged it returns converged on every
\* later update.
C30_ConvergenceMonitor ==
  updates # << >> =>
    /\ \A k \in DOMAIN updates : updates[k].best_before <= monitor.best_score
    /\ \A k \in 1..(Len(updates) - 1) :
          updates[k].best_before <= updates[k + 1].best_before
    /\ monitor.no_improvement_epochs = TrailingNotImproving(Len(updates))
    /\ monitor.converged = (monitor.no_improvement_epochs >= monitor.patience)
    /\ updates[Len(updates)].returned = monitor.converged
    /\ \A k \in 1..(Len(updates) - 1) :
          updates[k].returned => updates[k + 1].returned

====
